---- MODULE Spec2Model ----
(***************************************************************************)
(* Model of the Agent of src/src/agent.ts: the capability registry         *)
(* (addCapability, addCapabilities), the tool dispatch route               *)
(* (handleToolRoute), the conversation loop (process), and the root route  *)
(* (handleRootRoute) with the doTask and respondToChat handlers it starts. *)
(* The capabilities' run functions, the schema validator, the              *)
(* chat-completion and runtime collaborators and the onError callback are  *)
(* the environment: what they are called with is recorded in runLog and    *)
(* errLog, what they answer is chosen nondeterministically.                *)
(***************************************************************************)
EXTENDS Integers, Sequences, FiniteSets, TLC

VARIABLES
    options,   \* the agent's options; constructed is FALSE while no Agent exists
    tools,     \* Agent.tools: the registry, a sequence of Capability
    thrown,    \* the error the registry call just made threw to its caller
    lastCall,  \* the registry call just made: its arguments, the registry before
    root,      \* the handleRootRoute invocation in progress
    http,      \* Agent.server, the servers start() created, the start/stop calls
    client,    \* the requests made through an axios client with the retry interceptor
    route,     \* the handleToolRoute invocation in progress
    proc,      \* the process() invocations, by invocation id
    runLog,    \* every invocation of a capability's run, in order
    errLog     \* every invocation of the error handler, in order

vars == <<options, tools, thrown, lastCall, root, http, client, route, proc, runLog, errLog>>

(***************************************************************************)
(* Bounds of the environment.                                              *)
(***************************************************************************)
\* most tool calls, over one process(), requested in rounds in which the
\* collaborator and the tools depart from the plain round (one well-formed
\* call that returns); the plain rounds of a conversation come first
MaxVariedCalls == 2
\* most handleToolRoute requests served
MaxRequests == 2
\* most capabilities in one addCapabilities call
MaxListLen == 2
\* most calls of start and stop together
MaxLifecycleCalls == 4
\* most requests made through one axios client
MaxClientRequests == 2
\* most collaborator calls of one process() when two are interleaved
MaxInterleavedCalls == 2

(***************************************************************************)
(* Values.                                                                 *)
(***************************************************************************)
NoError == [name |-> "none", message |-> "", issues |-> <<>>]

Err(name, message) == [name |-> name, message |-> message, issues |-> <<>>]

\* JSON values used as tool arguments: undefined, or an object with an
\* optional "input" member and possibly a member no schema declares
Absent == [t |-> "undefined", v |-> ""]

InputValues == {Absent, [t |-> "string", v |-> "hi"], [t |-> "number", v |-> "123"]}

ArgUndefined == [kind |-> "undefined", input |-> Absent, extra |-> FALSE]

ArgObject(input, extra) == [kind |-> "object", input |-> input, extra |-> extra]

ArgValues ==
    {ArgUndefined} \cup {ArgObject(i, x) : i \in InputValues, x \in BOOLEAN}

\* the schemas of the tests: z.object({input: z.string()}) and
\* z.object({input: z.number()})
Schemas == {"string", "number"}

ZodError(path, expected, received) ==
    [name |-> "ZodError",
     message |-> IF received = "undefined" THEN "Required"
                 ELSE "Expected " \o expected \o ", received " \o received,
     issues |-> <<[path |-> path, expected |-> expected, received |-> received]>>]

\* schema.parseAsync(raw): the validated value (unknown keys stripped) or the
\* validator's structured error
parseAsync(schema, raw) ==
    IF raw.kind # "object"
    THEN [ok |-> FALSE, value |-> raw, error |-> ZodError(<<>>, "object", raw.kind)]
    ELSE IF raw.input.t # schema
    THEN [ok |-> FALSE, value |-> raw,
          error |-> ZodError(<<"input">>, schema, raw.input.t)]
    ELSE [ok |-> TRUE, value |-> ArgObject(raw.input, FALSE), error |-> NoError]

\* what a run function does once invoked: it returns a string or throws
RunStrings == {"hi", "done"}

RunOutcomes ==
    {[kind |-> "return", value |-> s, error |-> NoError] : s \in RunStrings}
    \cup {[kind |-> "throw", value |-> "", error |-> Err("Error", "run failed")]}

PlainOutcome == [kind |-> "return", value |-> "done", error |-> NoError]

(***************************************************************************)
(* Capability and registry.                                                *)
(***************************************************************************)
Capability(name, description, schema, run) ==
    [name |-> name, description |-> description, schema |-> schema, run |-> run]

\* the capabilities the host application registers
CapabilityPool ==
    {Capability("echo", "Echoes the input", "string", "echoRun"),
     Capability("sum", "Sums numbers", "number", "sumRun")}

ToolNames == {"echo", "sum", "ghost"}

NoTool == Capability("", "", "", "")

HasTool(name) == \E i \in 1..Len(tools) : tools[i].name = name

\* this.tools.find(t => t.name === name): the first match
FindTool(name) ==
    IF HasTool(name)
    THEN tools[CHOOSE i \in 1..Len(tools) :
                 /\ tools[i].name = name
                 /\ \A j \in 1..(i - 1) : tools[j].name # name]
    ELSE NoTool

DuplicateName(name) == Err("Error", "Tool with name \"" \o name \o "\" already exists")

NotFound_unnamed(name) == "Tool not found"

NotFound(name) == "Tool \"" \o name \o "\" not found"

\* the handler is given a new Error that carries the message only
handleError_rewrapped(log, error, context) ==
    Append(log, [error |-> Err("Error", error.message), context |-> context])

\* this.handleError(error, context): one call of the configured handler
handleError(log, error, context) ==
    Append(log, [error |-> error, context |-> context])

(***************************************************************************)
(* Initial state: the Agent as its constructor leaves it.                  *)
(***************************************************************************)
Pids == {1, 2}

NoCall == [op |-> "none", list |-> <<>>, before |-> <<>>]

\* this.server is null (0), no server was created, no start or stop was called
HttpIdle == [server |-> 0, servers |-> <<>>, calls |-> <<>>]

\* handleRootRoute: the requests served so far (bodies), how the promise of
\* the last one settled, and every doTask/respondToChat invocation (handlers)
RootIdle ==
    [pc |-> "idle", n |-> 0, bodies |-> <<>>, settle |-> "none", handlers |-> <<>>]

NoResponse == [kind |-> "none", value |-> ""]

NoRequest == [hasToolName |-> FALSE, toolName |-> "", args |-> ArgUndefined]

RouteIdle ==
    [pc |-> "idle", n |-> 0, req |-> NoRequest, tool |-> NoTool,
     ran |-> [kind |-> "none", value |-> "", error |-> NoError],
     response |-> NoResponse, failures |-> 0, errBase |-> 0]

NoCompletion == [choices |-> <<>>]

ProcIdle ==
    [pc |-> "idle", messages |-> <<>>, currentMessages |-> <<>>,
     iterationCount |-> 0, calls |-> 0, responses |-> <<>>,
     request |-> [model |-> "", messages |-> <<>>, hasTools |-> FALSE, tools |-> <<>>],
     completion |-> NoCompletion, slots |-> <<>>,
     varied |-> 0, plain |-> TRUE, failures |-> 0,
     settled |-> 0, order |-> <<>>,
     outcome |-> [kind |-> "none", completion |-> NoCompletion, error |-> NoError]]

Init ==
    /\ options \in {[apiKey |-> TRUE, openaiApiKey |-> k, constructed |-> TRUE] :
                      k \in BOOLEAN}
    /\ tools = <<>>
    /\ thrown = NoError
    /\ lastCall = NoCall
    /\ root = RootIdle
    /\ http = HttpIdle
    /\ client = <<>>
    /\ route = RouteIdle
    /\ proc = [p \in Pids |-> ProcIdle]
    /\ runLog = <<>>
    /\ errLog = <<>>

\* registration happens in the setup phase, before the agent serves
SetupPhase ==
    /\ route.pc = "idle" /\ root.pc = "idle"
    /\ \A p \in Pids : proc[p].pc = "idle"

(***************************************************************************)
(* Agent.addCapability                                                     *)
(***************************************************************************)
\* the capability is pushed whatever the registry holds
addCapability_unchecked(reg, c) ==
    [tools |-> Append(reg, c), thrown |-> NoError]

\* a duplicate takes the place of the capability registered first
addCapability_replace(reg, c) ==
    IF \E i \in 1..Len(reg) : reg[i].name = c.name
    THEN [tools |-> [i \in 1..Len(reg) |-> IF reg[i].name = c.name THEN c ELSE reg[i]],
          thrown |-> DuplicateName(c.name)]
    ELSE [tools |-> Append(reg, c), thrown |-> NoError]

\* the new capability goes to the front of the registry
addCapability_prepend(reg, c) ==
    IF \E i \in 1..Len(reg) : reg[i].name = c.name
    THEN [tools |-> reg, thrown |-> DuplicateName(c.name)]
    ELSE [tools |-> <<c>> \o reg, thrown |-> NoError]

\* one call of addCapability on the registry reg: the registry it leaves
\* and what it throws
addCapability(reg, c) ==
    IF \E i \in 1..Len(reg) : reg[i].name = c.name
    THEN [tools |-> reg, thrown |-> DuplicateName(c.name)]
    ELSE [tools |-> Append(reg, c), thrown |-> NoError]

RegistryCall(op, list) == [op |-> op, list |-> list, before |-> tools]

AddCapability(c) ==
    /\ SetupPhase
    /\ LET r == addCapability(tools, c)
       IN  /\ tools' = r.tools
           /\ thrown' = r.thrown
    /\ lastCall' = RegistryCall("addCapability", <<c>>)
    /\ UNCHANGED <<client, http, root, options, route, proc, runLog, errLog>>

(***************************************************************************)
(* Agent.addCapabilities                                                   *)
(***************************************************************************)
\* the for loop: addCapability for each element in order, until one throws
RECURSIVE addCapabilities(_, _)
\* a list with a duplicate registers nothing
addCapabilities_rollback(reg, list) ==
    LET dup(i) == \/ \E k \in 1..Len(reg) : reg[k].name = list[i].name
                  \/ \E j \in 1..(i - 1) : list[j].name = list[i].name
    IN  IF \E i \in 1..Len(list) : dup(i)
        THEN [tools |-> reg,
              thrown |-> DuplicateName(
                  list[CHOOSE i \in 1..Len(list) :
                          dup(i) /\ \A j \in 1..(i - 1) : ~dup(j)].name)]
        ELSE [tools |-> reg \o list, thrown |-> NoError]

addCapabilities(reg, list) ==
    IF list = <<>>
    THEN [tools |-> reg, thrown |-> NoError]
    ELSE LET r == addCapability(reg, Head(list))
         IN  IF r.thrown # NoError THEN r
             ELSE addCapabilities(r.tools, Tail(list))

AddCapabilities(list) ==
    /\ SetupPhase
    /\ LET r == addCapabilities(tools, list)
       IN  /\ tools' = r.tools
           /\ thrown' = r.thrown
    /\ lastCall' = RegistryCall("addCapabilities", list)
    /\ UNCHANGED <<client, http, root, options, route, proc, runLog, errLog>>

\* the capabilities of the registry tests: besides the pool, a second
\* capability named echo and one more name
RegistryPool ==
    CapabilityPool
    \cup {Capability("echo", "Another echo", "number", "otherRun"),
          Capability("tool1", "Tool 1", "string", "tool1Run")}

\* the argument of addCapabilities is a non-empty tuple
RegistryLists ==
    UNION {[1..n -> RegistryPool] : n \in 1..MaxListLen}

NextRegistry ==
    \/ \E c \in RegistryPool : AddCapability(c)
    \/ \E list \in RegistryLists : AddCapabilities(list)

SpecRegistry == Init /\ [][NextRegistry]_vars

(***************************************************************************)
(* Agent.handleToolRoute                                                   *)
(***************************************************************************)
Requests ==
    {[hasToolName |-> TRUE, toolName |-> n, args |-> a] :
        n \in ToolNames, a \in ArgValues}
    \cup {[hasToolName |-> FALSE, toolName |-> "", args |-> ArgUndefined]}

\* the catch block throws the error on to the caller
ErrorEnvelope_thrown(error) == [kind |-> "thrown", value |-> error.message]

\* return { error: error.message }
ErrorEnvelope(error) == [kind |-> "error", value |-> error.message]

\* the catch block: notify the handler, answer with the error envelope
ToolRouteCatch(error) ==
    /\ errLog' = handleError(errLog, error, "handle_tool_route")
    /\ route' = [route EXCEPT !.pc = "done", !.failures = @ + 1,
                              !.response = ErrorEnvelope(error)]

\* return { result }
ResultEnvelope_constant(result) == [kind |-> "result", value |-> "done"]

ResultEnvelope(result) == [kind |-> "result", value |-> result]

\* entry up to the first await: the lookup of the tool
ToolRouteStart(req) ==
    /\ route.pc \in {"idle", "done"}
    /\ route.n < MaxRequests
    /\ thrown' = NoError
    /\ lastCall' = NoCall
    /\ LET r == [RouteIdle EXCEPT !.n = route.n + 1, !.req = req,
                                 !.failures = route.failures,
                                 !.errBase = Len(errLog)]
       IN  IF ~req.hasToolName
           THEN /\ errLog' = handleError(errLog, Err("BadRequest", "Tool name is required"),
                                         "handle_tool_route")
                /\ route' = [r EXCEPT !.pc = "done", !.failures = @ + 1,
                                      !.response =
                                          ErrorEnvelope(Err("BadRequest",
                                                            "Tool name is required"))]
           ELSE IF ~HasTool(req.toolName)
           THEN /\ errLog' = handleError(errLog, Err("BadRequest", NotFound(req.toolName)),
                                         "handle_tool_route")
                /\ route' = [r EXCEPT !.pc = "done", !.failures = @ + 1,
                                      !.response =
                                          ErrorEnvelope(Err("BadRequest",
                                                            NotFound(req.toolName)))]
           ELSE /\ route' = [r EXCEPT !.pc = "parsing", !.tool = FindTool(req.toolName)]
                /\ errLog' = errLog
    /\ UNCHANGED <<client, http, root, options, tools, proc, runLog>>

\* one invocation of a capability's run
RunCall(via, id, round, call, tool, raw, args) ==
    [via |-> via, id |-> id, round |-> round, call |-> call,
     tool |-> tool, raw |-> raw, args |-> args]

\* run is called with the request's args whatever the validator says
ToolRouteParsed_unchecked ==
    /\ route.pc = "parsing"
    /\ runLog' = Append(runLog, RunCall("route", route.n, 0, 0, route.tool,
                                        route.req.args, route.req.args))
    /\ route' = [route EXCEPT !.pc = "running"]
    /\ UNCHANGED <<client, http, root, options, tools, thrown, lastCall, proc, errLog>>

\* schema.parseAsync settles: the catch block, or the call of run
ToolRouteParsed ==
    /\ route.pc = "parsing"
    /\ LET r == parseAsync(route.tool.schema, route.req.args)
       IN  IF r.ok
           THEN /\ runLog' = Append(runLog, RunCall("route", route.n, 0, 0, route.tool,
                                                    route.req.args, r.value))
                /\ route' = [route EXCEPT !.pc = "running"]
                /\ errLog' = errLog
           ELSE /\ ToolRouteCatch(r.error)
                /\ runLog' = runLog
    /\ UNCHANGED <<client, http, root, options, tools, thrown, lastCall, proc>>

\* run settles: {result} or the catch block
ToolRouteRunSettles(outcome) ==
    /\ route.pc = "running"
    /\ IF outcome.kind = "return"
       THEN /\ route' = [route EXCEPT !.pc = "done", !.ran = outcome,
                                      !.response = ResultEnvelope(outcome.value)]
            /\ errLog' = errLog
       ELSE /\ errLog' = handleError(errLog, outcome.error, "handle_tool_route")
            /\ route' = [route EXCEPT !.pc = "done", !.ran = outcome,
                                      !.failures = @ + 1,
                                      !.response = ErrorEnvelope(outcome.error)]
    /\ UNCHANGED <<client, http, root, options, tools, thrown, lastCall, proc, runLog>>

NextRoute ==
    \/ \E c \in CapabilityPool : AddCapability(c)
    \/ \E req \in Requests : ToolRouteStart(req)
    \/ ToolRouteParsed
    \/ \E o \in RunOutcomes : ToolRouteRunSettles(o)

SpecRoute == Init /\ [][NextRoute]_vars

(***************************************************************************)
(* Agent.process: the conversation loop                                    *)
(***************************************************************************)
MAX_ITERATIONS == 10

\* the argument strings the model sends, and what JSON.parse makes of them
ArgStrings == {"{\"input\":\"hi\"}", "{\"input\":123}", "{oops"}

JSONParse(str) ==
    CASE str = "{\"input\":\"hi\"}" ->
            [ok |-> TRUE, value |-> ArgObject([t |-> "string", v |-> "hi"], FALSE),
             error |-> NoError]
      [] str = "{\"input\":123}" ->
            [ok |-> TRUE, value |-> ArgObject([t |-> "number", v |-> "123"], FALSE),
             error |-> NoError]
      [] OTHER ->
            [ok |-> FALSE, value |-> ArgUndefined,
             error |-> Err("SyntaxError", "Unexpected token o in JSON at position 1")]

\* JSON.stringify of a string run returned, and of the {error: message} object
JSONStringify(result) == [json |-> "string", value |-> result]

JSONStringifyError(message) == [json |-> "object", value |-> message]

ToolMessage(content, id) == [role |-> "tool", content |-> content, tool_call_id |-> id]

\* the tool calls a response may carry, before they get their id
CallShapes ==
    {[hasFunction |-> TRUE, name |-> "echo", arguments |-> "{\"input\":\"hi\"}"],
     [hasFunction |-> TRUE, name |-> "echo", arguments |-> "{\"input\":123}"],
     [hasFunction |-> TRUE, name |-> "echo", arguments |-> "{oops"],
     [hasFunction |-> TRUE, name |-> "ghost", arguments |-> "{\"input\":\"hi\"}"],
     [hasFunction |-> FALSE, name |-> "", arguments |-> ""]}

ToolCall(id, shape) ==
    [id |-> id, hasFunction |-> shape.hasFunction, name |-> shape.name,
     arguments |-> shape.arguments]

ToolCallLists ==
    UNION {{[i \in 1..n |-> ToolCall(i, f[i])] : f \in [1..n -> CallShapes]} :
              n \in 1..MaxVariedCalls}

PlainCalls ==
    <<ToolCall(1, [hasFunction |-> TRUE, name |-> "echo",
                   arguments |-> "{\"input\":\"hi\"}"])>>

AssistantMessage(content, calls) ==
    [role |-> "assistant", content |-> content, tool_calls |-> calls]

Completion(message) == [choices |-> <<[hasMessage |-> TRUE, message |-> message]>>]

\* the completions the collaborator may answer with
EmptyCompletions ==
    {[choices |-> <<>>],
     [choices |-> <<[hasMessage |-> FALSE, message |-> AssistantMessage("", <<>>)]>>]}

FinalCompletions ==
    {Completion(AssistantMessage(c, <<>>)) : c \in {"Task completed", "Hello"}}

ToolCompletions == {Completion(AssistantMessage("", calls)) : calls \in ToolCallLists}

Completions == EmptyCompletions \cup FinalCompletions \cup ToolCompletions

\* the messages arrays callers pass to process()
SeedMessages ==
    {<<[role |-> "user", content |-> "Hello"]>>,
     <<[role |-> "system", content |-> "You are a test agent"],
       [role |-> "user", content |-> "Hello"]>>}

\* the function descriptors derived from the registry (openAiTools)
openAiTools ==
    [i \in 1..Len(tools) |->
        [type |-> "function", name |-> tools[i].name,
         description |-> tools[i].description, parameters |-> tools[i].schema]]

\* what becomes of one tool call in the synchronous part of the map callback
CallFate(tc) ==
    IF ~tc.hasFunction THEN "nofunction"
    ELSE IF ~JSONParse(tc.arguments).ok THEN "badjson"
    ELSE IF ~HasTool(tc.name) THEN "notfound"
    ELSE "run"

Slot(state, error, message) == [state |-> state, error |-> error, message |-> message]

NoMessage == ToolMessage(JSONStringify(""), 0)

\* the promise of one map callback when the map returns
StartSlot(tc) ==
    CASE CallFate(tc) = "nofunction" ->
            Slot("rejected", Err("Error", "Tool call function is missing"), NoMessage)
      [] CallFate(tc) = "badjson" ->
            Slot("rejected", JSONParse(tc.arguments).error, NoMessage)
      [] CallFate(tc) = "notfound" ->
            Slot("resolved", NoError,
                 ToolMessage(JSONStringifyError(NotFound(tc.name)), tc.id))
      [] OTHER -> Slot("running", NoError, NoMessage)

\* the calls of run the map makes, in the order of the tool calls: run gets
\* the parsed arguments
StartedRuns(p, round, calls) ==
    LET started == SelectSeq(calls, LAMBDA tc : CallFate(tc) = "run")
    IN  [k \in 1..Len(started) |->
            RunCall("process", p, round, started[k].id, FindTool(started[k].name),
                    JSONParse(started[k].arguments).value,
                    JSONParse(started[k].arguments).value)]

\* the handler calls the map makes for tools that are not registered
StartedErrors(calls) ==
    LET missing == SelectSeq(calls, LAMBDA tc : CallFate(tc) = "notfound")
    IN  [k \in 1..Len(missing) |->
            [error |-> Err("Error", NotFound(missing[k].name)),
             context |-> "tool_execution"]]

\* the number of map callbacks that fail before their first await: a missing
\* function, malformed arguments, a tool that is not registered
StartedFailures(calls) ==
    Len(SelectSeq(calls, LAMBDA tc : CallFate(tc) # "run"))

\* one answer of the collaborator, as process() saw it
Response(kind, completion) == [kind |-> kind, completion |-> completion]

\* the outer catch block throws an error of its own
ProcessCatch_generic(pr, error) ==
    [pr EXCEPT !.pc = "rejected",
               !.outcome = [kind |-> "rejected", completion |-> NoCompletion,
                            error |-> Err("Error", "process failed")]]

\* the outer catch block of process: notify the handler, rethrow
ProcessCatch(pr, error) ==
    [pr EXCEPT !.pc = "rejected",
               !.outcome = [kind |-> "rejected", completion |-> NoCompletion,
                            error |-> error]]

\* process enters its loop without a look at the API key
ProcessEnter_deferred(p, messages) ==
    /\ proc' = [proc EXCEPT ![p] = [@ EXCEPT !.pc = "loop",
                                              !.messages = messages,
                                              !.currentMessages = messages]]
    /\ errLog' = errLog

\* entry of process up to the loop: the check of the API key
ProcessEnter(p, messages) ==
    IF ~options.openaiApiKey
    THEN LET e == Err("Error", "OpenAI API key is required for process(). Please provide it in options or set OPENAI_API_KEY environment variable.")
         IN  /\ proc' = [proc EXCEPT ![p] =
                            ProcessCatch([@ EXCEPT !.messages = messages,
                                                   !.failures = @ + 1], e)]
             /\ errLog' = handleError(errLog, e, "process")
    ELSE /\ proc' = [proc EXCEPT ![p] = [@ EXCEPT !.pc = "loop",
                                                   !.messages = messages,
                                                   !.currentMessages = messages]]
         /\ errLog' = errLog

ProcessStart(p, messages) ==
    /\ proc[p].pc = "idle"
    /\ thrown' = NoError
    /\ lastCall' = NoCall
    /\ ProcessEnter(p, messages)
    /\ UNCHANGED <<client, http, root, options, tools, route, runLog>>

\* the body of the chat.completions.create call
CreateParams(p) ==
    [model |-> "gpt-4o", messages |-> proc[p].currentMessages,
     hasTools |-> Len(tools) > 0,
     tools |-> IF Len(tools) > 0 THEN openAiTools ELSE <<>>]

\* the head of the while loop: the next request to the collaborator, or the
\* throw after the loop
ProcessIterate(p) ==
    /\ proc[p].pc = "loop"
    /\ IF proc[p].iterationCount < MAX_ITERATIONS
       THEN /\ proc' = [proc EXCEPT ![p] = [@ EXCEPT !.pc = "awaitCompletion",
                                                      !.calls = @ + 1,
                                                      !.order = <<>>,
                                                      !.request = CreateParams(p)]]
            /\ errLog' = errLog
       ELSE LET e == Err("Error", "Max iterations reached without completion")
            IN  /\ proc' = [proc EXCEPT ![p] =
                                   ProcessCatch([@ EXCEPT !.failures = @ + 1], e)]
                /\ errLog' = handleError(errLog, e, "process")
    /\ UNCHANGED <<client, http, root, options, tools, thrown, lastCall, route, runLog>>

\* the collaborator call rejects
CompletionFails(p) ==
    /\ proc[p].pc = "awaitCompletion"
    /\ LET e == Err("Error", "OpenAI API error")
       IN  /\ proc' = [proc EXCEPT ![p] =
                          ProcessCatch([@ EXCEPT !.failures = @ + 1,
                                                 !.responses =
                                           Append(@, Response("throw", NoCompletion))], e)]
           /\ errLog' = handleError(errLog, e, "process")
    /\ UNCHANGED <<client, http, root, options, tools, thrown, lastCall, route, runLog>>

\* an answer without a message is skipped and the loop goes on
CompletionEmpty_skips(p, completion) ==
    /\ proc[p].pc = "awaitCompletion"
    /\ IF Len(completion.choices) = 0 THEN TRUE ELSE ~completion.choices[1].hasMessage
    /\ proc' = [proc EXCEPT ![p] =
                   [@ EXCEPT !.pc = "loop",
                             !.completion = completion,
                             !.responses = Append(@, Response("empty", completion)),
                             !.iterationCount = @ + 1]]
    /\ UNCHANGED <<client, http, root, options, tools, thrown, lastCall, route, runLog, errLog>>

\* the collaborator answers without a choice or without a message
CompletionEmpty(p, completion) ==
    /\ proc[p].pc = "awaitCompletion"
    /\ IF Len(completion.choices) = 0 THEN TRUE ELSE ~completion.choices[1].hasMessage
    /\ LET e == Err("Error", "No response from OpenAI")
       IN  /\ proc' = [proc EXCEPT ![p] =
                          ProcessCatch([@ EXCEPT !.completion = completion,
                                                 !.failures = @ + 1,
                                                 !.responses =
                                           Append(@, Response("empty", completion))], e)]
           /\ errLog' = handleError(errLog, e, "process")
    /\ UNCHANGED <<client, http, root, options, tools, thrown, lastCall, route, runLog>>

\* a message without tool calls is pushed and the loop goes on
CompletionFinal_continues(p, completion) ==
    /\ proc[p].pc = "awaitCompletion"
    /\ Len(completion.choices) > 0 /\ completion.choices[1].hasMessage
    /\ Len(completion.choices[1].message.tool_calls) = 0
    /\ proc' = [proc EXCEPT ![p] =
                   [@ EXCEPT !.pc = "loop",
                             !.completion = completion,
                             !.responses = Append(@, Response("final", completion)),
                             !.currentMessages =
                                 Append(@, completion.choices[1].message),
                             !.iterationCount = @ + 1]]
    /\ UNCHANGED <<client, http, root, options, tools, thrown, lastCall, route, runLog, errLog>>

\* the collaborator answers with a message that requests no tool call
CompletionFinal(p, completion) ==
    /\ proc[p].pc = "awaitCompletion"
    /\ Len(completion.choices) > 0 /\ completion.choices[1].hasMessage
    /\ Len(completion.choices[1].message.tool_calls) = 0
    /\ proc' = [proc EXCEPT ![p] =
                   [@ EXCEPT !.pc = "returned",
                             !.completion = completion,
                             !.responses = Append(@, Response("final", completion)),
                             !.outcome = [kind |-> "returned", completion |-> completion,
                                          error |-> NoError]]]
    /\ UNCHANGED <<client, http, root, options, tools, thrown, lastCall, route, runLog, errLog>>

\* the collaborator requests tool calls: the map over them runs to its end,
\* every callback up to its first await
CompletionTools(p, completion) ==
    /\ proc[p].pc = "awaitCompletion"
    /\ Len(completion.choices) > 0 /\ completion.choices[1].hasMessage
    /\ LET calls == completion.choices[1].message.tool_calls
           isPlain == calls = PlainCalls
       IN  /\ Len(calls) > 0
           /\ \E vary \in BOOLEAN :
                /\ ~isPlain => vary
                /\ vary => proc[p].varied + Len(calls) <= MaxVariedCalls
                /\ ~vary => proc[p].varied = 0
                /\ proc' = [proc EXCEPT ![p] =
                      [@ EXCEPT !.pc = "awaitTools",
                                !.completion = completion,
                                !.responses = Append(@, Response("tools", completion)),
                                !.slots = [i \in 1..Len(calls) |-> StartSlot(calls[i])],
                                !.plain = ~vary,
                                !.failures = @ + StartedFailures(calls),
                                !.varied = IF vary THEN @ + Len(calls) ELSE @]]
           /\ runLog' = runLog \o StartedRuns(p, proc[p].iterationCount + 1, calls)
           /\ errLog' = errLog \o StartedErrors(calls)
    /\ UNCHANGED <<client, http, root, options, tools, thrown, lastCall, route>>

\* a run that throws is called again
RunSettles_retry(p, i, outcome) ==
    /\ proc[p].pc \in {"awaitTools", "rejected"}
    /\ i \in 1..Len(proc[p].slots)
    /\ proc[p].slots[i].state = "running"
    /\ proc[p].plain => outcome = PlainOutcome
    /\ LET tc == proc[p].completion.choices[1].message.tool_calls[i]
       IN  IF outcome.kind = "return"
           THEN /\ proc' = [proc EXCEPT ![p].slots[i] =
                               Slot("resolved", NoError,
                                    ToolMessage(JSONStringify(outcome.value), tc.id))]
                /\ runLog' = runLog
           ELSE /\ Len(runLog) < 4
                /\ runLog' = Append(runLog,
                                    RunCall("process", p, proc[p].iterationCount + 1, tc.id,
                                            FindTool(tc.name),
                                            JSONParse(tc.arguments).value,
                                            JSONParse(tc.arguments).value))
                /\ proc' = proc
    /\ UNCHANGED <<client, http, root, options, tools, thrown, lastCall, route, errLog>>

\* a run that throws rejects the callback of its call
RunSettles_uncaught(p, i, outcome) ==
    /\ proc[p].pc \in {"awaitTools", "rejected"}
    /\ i \in 1..Len(proc[p].slots)
    /\ proc[p].slots[i].state = "running"
    /\ proc[p].plain => outcome = PlainOutcome
    /\ LET id == proc[p].completion.choices[1].message.tool_calls[i].id
       IN  IF outcome.kind = "return"
           THEN proc' = [proc EXCEPT ![p].slots[i] =
                            Slot("resolved", NoError,
                                 ToolMessage(JSONStringify(outcome.value), id)),
                                     ![p].settled = @ + 1,
                                     ![p].order = Append(@, i)]
           ELSE proc' = [proc EXCEPT ![p].slots[i] =
                            Slot("rejected", outcome.error, NoMessage),
                                     ![p].settled = @ + 1,
                                     ![p].order = Append(@, i)]
    /\ UNCHANGED <<client, http, root, options, tools, thrown, lastCall, route, runLog, errLog>>

\* one run started by the map settles: the tool-result message of the call,
\* or the inner catch block
RunSettles(p, i, outcome) ==
    /\ proc[p].pc \in {"awaitTools", "rejected"}
    /\ i \in 1..Len(proc[p].slots)
    /\ proc[p].slots[i].state = "running"
    /\ proc[p].plain => outcome = PlainOutcome
    /\ LET id == proc[p].completion.choices[1].message.tool_calls[i].id
       IN  IF outcome.kind = "return"
           THEN /\ proc' = [proc EXCEPT ![p].slots[i] =
                               Slot("resolved", NoError,
                                    ToolMessage(JSONStringify(outcome.value), id)),
                                            ![p].settled = @ + 1,
                                            ![p].order = Append(@, i)]
                /\ errLog' = errLog
           ELSE /\ proc' = [proc EXCEPT ![p].slots[i] =
                               Slot("resolved", NoError,
                                    ToolMessage(JSONStringifyError(outcome.error.message), id)),
                                            ![p].failures = @ + 1,
                                            ![p].settled = @ + 1,
                                            ![p].order = Append(@, i)]
                /\ errLog' = handleError(errLog, outcome.error, "tool_execution")
    /\ UNCHANGED <<client, http, root, options, tools, thrown, lastCall, route, runLog>>

\* Promise.all rejects with the first rejected callback: the outer catch
BatchRejects(p) ==
    /\ proc[p].pc = "awaitTools"
    /\ \E i \in 1..Len(proc[p].slots) : proc[p].slots[i].state = "rejected"
    /\ LET first == CHOOSE i \in 1..Len(proc[p].slots) :
                       /\ proc[p].slots[i].state = "rejected"
                       /\ \A j \in 1..(i - 1) : proc[p].slots[j].state # "rejected"
           e == proc[p].slots[first].error
       IN  /\ proc' = [proc EXCEPT ![p] = ProcessCatch(@, e)]
           /\ errLog' = handleError(errLog, e, "process")
    /\ UNCHANGED <<client, http, root, options, tools, thrown, lastCall, route, runLog>>

\* only the tool results are pushed
BatchSettles_noAssistant(p) ==
    /\ proc[p].pc = "awaitTools"
    /\ \A i \in 1..Len(proc[p].slots) : proc[p].slots[i].state = "resolved"
    /\ LET toolResults == [i \in 1..Len(proc[p].slots) |-> proc[p].slots[i].message]
       IN  proc' = [proc EXCEPT ![p] =
                       [@ EXCEPT !.pc = "loop",
                                 !.currentMessages = @ \o toolResults,
                                 !.iterationCount = @ + 1,
                                 !.slots = <<>>]]
    /\ UNCHANGED <<client, http, root, options, tools, thrown, lastCall, route, runLog, errLog>>

\* the loop goes on as soon as one callback has resolved
BatchSettles_race(p) ==
    /\ proc[p].pc = "awaitTools"
    /\ \E i \in 1..Len(proc[p].slots) : proc[p].slots[i].state = "resolved"
    /\ LET lastMessage == proc[p].completion.choices[1].message
           toolResults == [i \in 1..Len(proc[p].slots) |-> proc[p].slots[i].message]
       IN  proc' = [proc EXCEPT ![p] =
                       [@ EXCEPT !.pc = "loop",
                                 !.currentMessages = @ \o <<lastMessage>> \o toolResults,
                                 !.iterationCount = @ + 1,
                                 !.slots = <<>>]]
    /\ UNCHANGED <<client, http, root, options, tools, thrown, lastCall, route, runLog, errLog>>

\* the conversation is the array of the caller, not a copy of it
BatchSettles_aliased(p) ==
    /\ proc[p].pc = "awaitTools"
    /\ \A i \in 1..Len(proc[p].slots) : proc[p].slots[i].state = "resolved"
    /\ LET lastMessage == proc[p].completion.choices[1].message
           toolResults == [i \in 1..Len(proc[p].slots) |-> proc[p].slots[i].message]
       IN  proc' = [proc EXCEPT ![p] =
                       [@ EXCEPT !.pc = "loop",
                                 !.messages = @ \o <<lastMessage>> \o toolResults,
                                 !.currentMessages = @ \o <<lastMessage>> \o toolResults,
                                 !.iterationCount = @ + 1,
                                 !.slots = <<>>]]
    /\ UNCHANGED <<client, http, root, options, tools, thrown, lastCall, route, runLog, errLog>>

\* the conversation belongs to the agent: the round is pushed to the
\* conversation of every invocation under way
BatchSettles_shared(p) ==
    /\ proc[p].pc = "awaitTools"
    /\ \A i \in 1..Len(proc[p].slots) : proc[p].slots[i].state = "resolved"
    /\ LET lastMessage == proc[p].completion.choices[1].message
           toolResults == [i \in 1..Len(proc[p].slots) |-> proc[p].slots[i].message]
       IN  proc' = [q \in Pids |->
                       IF q = p
                       THEN [proc[q] EXCEPT !.pc = "loop",
                                 !.currentMessages = @ \o <<lastMessage>> \o toolResults,
                                 !.iterationCount = @ + 1,
                                 !.slots = <<>>]
                       ELSE IF proc[q].pc \in {"idle", "returned", "rejected"}
                       THEN proc[q]
                       ELSE [proc[q] EXCEPT
                                 !.currentMessages = @ \o <<lastMessage>> \o toolResults]]
    /\ UNCHANGED <<client, http, root, options, tools, thrown, lastCall, route, runLog, errLog>>

\* the tool results are pushed in the order in which the runs completed
BatchSettles_completionOrder(p) ==
    /\ proc[p].pc = "awaitTools"
    /\ \A i \in 1..Len(proc[p].slots) : proc[p].slots[i].state = "resolved"
    /\ LET lastMessage == proc[p].completion.choices[1].message
           late == SelectSeq([i \in 1..Len(proc[p].slots) |-> i],
                             LAMBDA i : \A k \in 1..Len(proc[p].order) :
                                            proc[p].order[k] # i)
           done == late \o proc[p].order
           toolResults == [k \in 1..Len(done) |-> proc[p].slots[done[k]].message]
       IN  proc' = [proc EXCEPT ![p] =
                       [@ EXCEPT !.pc = "loop",
                                 !.currentMessages = @ \o <<lastMessage>> \o toolResults,
                                 !.iterationCount = @ + 1,
                                 !.slots = <<>>]]
    /\ UNCHANGED <<client, http, root, options, tools, thrown, lastCall, route, runLog, errLog>>

\* Promise.all resolves: the assistant message and the tool results are
\* pushed and the iteration is counted
BatchSettles(p) ==
    /\ proc[p].pc = "awaitTools"
    /\ \A i \in 1..Len(proc[p].slots) : proc[p].slots[i].state = "resolved"
    /\ LET lastMessage == proc[p].completion.choices[1].message
           toolResults == [i \in 1..Len(proc[p].slots) |-> proc[p].slots[i].message]
       IN  proc' = [proc EXCEPT ![p] =
                       [@ EXCEPT !.pc = "loop",
                                 !.currentMessages = @ \o <<lastMessage>> \o toolResults,
                                 !.iterationCount = @ + 1,
                                 !.slots = <<>>]]
    /\ UNCHANGED <<client, http, root, options, tools, thrown, lastCall, route, runLog, errLog>>

Solo == {1}

NextProcess ==
    \/ \E c \in CapabilityPool : AddCapability(c)
    \/ \E p \in Solo, m \in SeedMessages : ProcessStart(p, m)
    \/ \E p \in Solo : ProcessIterate(p)
    \/ \E p \in Solo : CompletionFails(p)
    \/ \E p \in Solo, c \in EmptyCompletions : CompletionEmpty(p, c)
    \/ \E p \in Solo, c \in FinalCompletions : CompletionFinal(p, c)
    \/ \E p \in Solo, c \in ToolCompletions : CompletionTools(p, c)
    \/ \E p \in Solo, i \in 1..MaxVariedCalls, o \in RunOutcomes : RunSettles(p, i, o)
    \/ \E p \in Solo : BatchRejects(p)
    \/ \E p \in Solo : BatchSettles(p)

SpecProcess == Init /\ [][NextProcess]_vars

\* two invocations of process on one agent, their steps interleaved: each
\* has its own seed messages, the collaborator requests one well-formed
\* call of the echo capability in a round
NextInterleaved ==
    \/ \E c \in CapabilityPool : c.name = "echo" /\ AddCapability(c)
    \/ \E p \in Pids, m \in SeedMessages : Len(m) = p /\ ProcessStart(p, m)
    \/ \E p \in Pids : proc[p].calls < MaxInterleavedCalls /\ ProcessIterate(p)
    \/ \E p \in Pids, c \in FinalCompletions : CompletionFinal(p, c)
    \/ \E p \in Pids, c \in ToolCompletions :
          c.choices[1].message.tool_calls = PlainCalls /\ CompletionTools(p, c)
    \/ \E p \in Pids, o \in RunOutcomes : RunSettles(p, 1, o)
    \/ \E p \in Pids : BatchSettles(p)

SpecInterleaved == Init /\ [][NextInterleaved]_vars

(***************************************************************************)
(* A capability whose run delegates to process (SpecNested): the run that  *)
(* handleToolRoute dispatched awaits this.process and does not catch what *)
(* it throws.                                                              *)
(***************************************************************************)
NestedRequests ==
    {[hasToolName |-> TRUE, toolName |-> "echo", args |-> ArgObject(i, FALSE)] :
        i \in {[t |-> "string", v |-> "hi"], [t |-> "number", v |-> "123"]}}

\* the run dispatched by the route calls this.process
RunCallsProcess(p, messages) ==
    /\ route.pc = "running"
    /\ proc[p].pc = "idle"
    /\ ProcessEnter(p, messages)
    /\ route' = [route EXCEPT !.pc = "nested"]
    /\ UNCHANGED <<client, http, root, options, tools, thrown, lastCall, runLog>>

\* the awaited process settles: the run returns the content of the answer,
\* or rejects with the error process rethrew and the catch block of the
\* route receives it
NestedRunSettles(p) ==
    /\ route.pc = "nested"
    /\ proc[p].pc \in {"returned", "rejected"}
    /\ IF proc[p].pc = "returned"
       THEN LET content == proc[p].outcome.completion.choices[1].message.content
            IN  /\ route' = [route EXCEPT !.pc = "done",
                                 !.ran = [kind |-> "return", value |-> content,
                                          error |-> NoError],
                                 !.response = ResultEnvelope(content)]
                /\ errLog' = errLog
       ELSE LET e == proc[p].outcome.error
            IN  /\ errLog' = handleError(errLog, e, "handle_tool_route")
                /\ route' = [route EXCEPT !.pc = "done",
                                 !.ran = [kind |-> "throw", value |-> "", error |-> e],
                                 !.response = ErrorEnvelope(e)]
    /\ UNCHANGED <<client, http, root, options, tools, thrown, lastCall, proc, runLog>>

NextNested ==
    \/ \E c \in CapabilityPool : AddCapability(c)
    \/ \E req \in NestedRequests : ToolRouteStart(req)
    \/ ToolRouteParsed
    \/ \E p \in Solo, m \in SeedMessages : RunCallsProcess(p, m)
    \/ \E p \in Solo : ProcessIterate(p)
    \/ \E p \in Solo : CompletionFails(p)
    \/ \E p \in Solo, c \in EmptyCompletions : CompletionEmpty(p, c)
    \/ \E p \in Solo, c \in FinalCompletions : CompletionFinal(p, c)
    \/ \E p \in Solo, c \in ToolCompletions : CompletionTools(p, c)
    \/ \E p \in Solo, i \in 1..MaxVariedCalls, o \in RunOutcomes : RunSettles(p, i, o)
    \/ \E p \in Solo : BatchRejects(p)
    \/ \E p \in Solo : BatchSettles(p)
    \/ \E p \in Solo : NestedRunSettles(p)

SpecNested == Init /\ [][NextNested]_vars

(***************************************************************************)
(* The constructor (SpecConstruct): the host application calls new Agent   *)
(* until it gets one, then registers capabilities and serves tool          *)
(* requests.  A flag of the options stands for "the option or its          *)
(* environment variable is set".                                           *)
(***************************************************************************)
AgentOptions == [apiKey : BOOLEAN, openaiApiKey : BOOLEAN]

InitConstruct ==
    /\ options = [apiKey |-> FALSE, openaiApiKey |-> FALSE, constructed |-> FALSE]
    /\ tools = <<>>
    /\ thrown = NoError
    /\ lastCall = NoCall
    /\ root = RootIdle
    /\ http = HttpIdle
    /\ client = <<>>
    /\ route = RouteIdle
    /\ proc = [p \in Pids |-> ProcIdle]
    /\ runLog = <<>>
    /\ errLog = <<>>

\* the constructor keeps the options whatever they hold
Construct_lenient(o) ==
    /\ ~options.constructed
    /\ options' = [apiKey |-> o.apiKey, openaiApiKey |-> o.openaiApiKey,
                   constructed |-> TRUE]
    /\ thrown' = NoError
    /\ lastCall' = [op |-> "constructor", list |-> <<o>>, before |-> <<>>]
    /\ UNCHANGED <<client, http, tools, root, route, proc, runLog, errLog>>

\* new Agent(o): throws when the platform credential is missing
Construct(o) ==
    /\ ~options.constructed
    /\ IF ~o.apiKey
       THEN /\ thrown' = Err("Error", "OpenServ API key is required. Please provide it in options or set OPENSERV_API_KEY environment variable.")
            /\ options' = options
       ELSE /\ options' = [apiKey |-> o.apiKey, openaiApiKey |-> o.openaiApiKey,
                           constructed |-> TRUE]
            /\ thrown' = NoError
    /\ lastCall' = [op |-> "constructor", list |-> <<o>>, before |-> <<>>]
    /\ UNCHANGED <<client, http, tools, root, route, proc, runLog, errLog>>

NextConstruct ==
    \/ \E o \in AgentOptions : Construct(o)
    \/ options.constructed /\ NextRoute

SpecConstruct == InitConstruct /\ [][NextConstruct]_vars

(***************************************************************************)
(* Agent.start and Agent.stop (SpecLifecycle).  A server created by        *)
(* app.listen is binding until it emits listening or error; close() gives  *)
(* its handle up at once and the close event, which runs the callbacks of  *)
(* every close() pending on it, follows when its connections have ended.   *)
(***************************************************************************)
LifecycleCall(op, server, state) == [op |-> op, server |-> server, state |-> state]

\* start(): this.server = this.app.listen(port, resolve), on error reject
Start ==
    /\ Len(http.calls) < MaxLifecycleCalls
    /\ LET k == Len(http.servers) + 1
       IN  http' = [server |-> k,
                    servers |-> Append(http.servers,
                                       [state |-> "binding", bound |-> FALSE]),
                    calls |-> Append(http.calls, LifecycleCall("start", k, "pending"))]
    /\ UNCHANGED <<client, options, tools, thrown, lastCall, root, route, proc, runLog, errLog>>

\* the promises of the start calls on server k settle
SettleStarts(k, state) ==
    [i \in 1..Len(http.calls) |->
        IF http.calls[i].op = "start" /\ http.calls[i].server = k
        THEN [http.calls[i] EXCEPT !.state = state]
        ELSE http.calls[i]]

\* the server emits listening: the callback of listen resolves start; the
\* port, the same for every server of the agent, is held by no other one
BindSucceeds(k) ==
    /\ k \in 1..Len(http.servers)
    /\ http.servers[k].state = "binding"
    /\ \A j \in 1..Len(http.servers) : http.servers[j].state # "listening"
    /\ http' = [http EXCEPT !.servers[k] = [state |-> "listening", bound |-> TRUE],
                            !.calls = SettleStarts(k, "resolved")]
    /\ UNCHANGED <<client, options, tools, thrown, lastCall, root, route, proc, runLog, errLog>>

\* the server emits error (the port is taken): start rejects
BindFails(k) ==
    /\ k \in 1..Len(http.servers)
    /\ http.servers[k].state = "binding"
    /\ http' = [http EXCEPT !.servers[k].state = "failed",
                            !.calls = SettleStarts(k, "rejected")]
    /\ UNCHANGED <<client, options, tools, thrown, lastCall, root, route, proc, runLog, errLog>>

\* stop() resolves at once whatever this.server is
Stop_immediate ==
    /\ Len(http.calls) < MaxLifecycleCalls
    /\ http' = [http EXCEPT !.calls =
                    Append(@, LifecycleCall("stop", http.server, "resolved"))]
    /\ UNCHANGED <<client, options, tools, thrown, lastCall, root, route, proc, runLog, errLog>>

\* stop(): returns when this.server is null, else this.server.close(resolve)
Stop ==
    /\ Len(http.calls) < MaxLifecycleCalls
    /\ IF http.server = 0
       THEN http' = [http EXCEPT !.calls =
                        Append(@, LifecycleCall("stop", 0, "resolved"))]
       ELSE http' = [http EXCEPT
                        !.servers[http.server].state =
                            IF @ \in {"binding", "listening"} THEN "closing" ELSE @,
                        !.calls = Append(@, LifecycleCall("stop", http.server,
                                                          "pending"))]
    /\ UNCHANGED <<client, options, tools, thrown, lastCall, root, route, proc, runLog, errLog>>

\* server k emits close: the callback of every close() pending on it runs
CloseCompletes(k) ==
    /\ k \in 1..Len(http.servers)
    /\ http.servers[k].state \in {"closing", "closed", "failed"}
    /\ \E i \in 1..Len(http.calls) :
          /\ http.calls[i].op = "stop" /\ http.calls[i].server = k
          /\ http.calls[i].state = "pending"
    /\ http' = [http EXCEPT
                    !.servers[k].state = "closed",
                    !.calls = [i \in 1..Len(http.calls) |->
                                  IF /\ http.calls[i].op = "stop"
                                     /\ http.calls[i].server = k
                                  THEN [http.calls[i] EXCEPT !.state = "resolved"]
                                  ELSE http.calls[i]]]
    /\ UNCHANGED <<client, options, tools, thrown, lastCall, root, route, proc, runLog, errLog>>

NextLifecycle ==
    \/ Start
    \/ \E k \in 1..MaxLifecycleCalls : BindSucceeds(k)
    \/ \E k \in 1..MaxLifecycleCalls : BindFails(k)
    \/ Stop
    \/ \E k \in 1..MaxLifecycleCalls : CloseCompletes(k)

SpecLifecycle == Init /\ [][NextLifecycle]_vars

\* the close event of a server that was closed is emitted in the end: its
\* connections end
SpecLifecycleFair ==
    /\ SpecLifecycle
    /\ \A k \in 1..MaxLifecycleCalls : WF_vars(CloseCompletes(k))

(***************************************************************************)
(* createRetryInterceptor (SpecRetry).                                     *)
(***************************************************************************)
maxRetries == 3

\* what a request meets: a 2xx response, a 502, another error status, or no
\* response at all
ResponseStatuses == {200, 502, 500, 0}

\* the request interceptor sets the counter of every request to 0
requestInterceptor_reset(config) == [config EXCEPT !._retryCount = 0]

\* the request interceptor: the counter starts at 0 when the config has none
\* (a config without _retryCount is written with _retryCount -1)
requestInterceptor(config) ==
    IF config._retryCount = -1 THEN [config EXCEPT !._retryCount = 0]
    ELSE config

\* the caller makes a request; the request interceptor sees its config and
\* the request is sent
ClientRequest(url) ==
    /\ Len(client) < MaxClientRequests
    /\ client' = Append(client,
                        [config |-> requestInterceptor([url |-> url,
                                                        _retryCount |-> -1]),
                         attempts |-> 1, statuses |-> <<>>, state |-> "sent"])
    /\ UNCHANGED <<options, tools, thrown, lastCall, root, http, route, proc, runLog, errLog>>

\* an attempt of request k ends: the response passes through, or the error
\* handler of the response interceptor counts a retry and starts the delay,
\* or rejects with the error
ResponseArrives(k, status) ==
    /\ k \in 1..Len(client)
    /\ client[k].state = "sent"
    /\ LET config == client[k].config
           currentRetryCount ==
               IF config._retryCount = -1 THEN 0 ELSE config._retryCount
       IN  client' = [client EXCEPT ![k] =
               IF status = 200
               THEN [@ EXCEPT !.state = "resolved", !.statuses = Append(@, status)]
               ELSE IF status = 502 /\ currentRetryCount < maxRetries
               THEN [@ EXCEPT !.state = "delay", !.statuses = Append(@, status),
                              !.config._retryCount = currentRetryCount + 1]
               ELSE [@ EXCEPT !.state = "rejected", !.statuses = Append(@, status)]]
    /\ UNCHANGED <<options, tools, thrown, lastCall, root, http, route, proc, runLog, errLog>>

\* the delay of request k is over: client(config) sends the config again,
\* through the request interceptor
RetryFires(k) ==
    /\ k \in 1..Len(client)
    /\ client[k].state = "delay"
    /\ client' = [client EXCEPT ![k] =
                      [@ EXCEPT !.state = "sent", !.attempts = @ + 1,
                                !.config = requestInterceptor(@)]]
    /\ UNCHANGED <<options, tools, thrown, lastCall, root, http, route, proc, runLog, errLog>>

NextRetry ==
    \/ \E url \in {"/execute", "/chat"} : ClientRequest(url)
    \/ \E k \in 1..MaxClientRequests, status \in ResponseStatuses :
          ResponseArrives(k, status)
    \/ \E k \in 1..MaxClientRequests : RetryFires(k)

SpecRetry == Init /\ [][NextRetry]_vars

(***************************************************************************)
(* Agent.handleRootRoute, Agent.doTask, Agent.respondToChat (SpecRoot).    *)
(***************************************************************************)
ActionTypes == {"do-task", "respond-chat-message"}

\* request bodies: undefined, or an object with a type member (absent, one
\* of the two variants, or another string), with or without the task and
\* messages members and a member no variant declares
\* the me member of a body: absent, or an object whose id, name and kind
\* members are well-formed or not (base), with isBuiltByAgentBuilder absent,
\* a boolean or a string, and systemPrompt absent, a string or a number
NoMe ==
    [kind |-> "undefined", base |-> FALSE, isBuiltByAgentBuilder |-> "absent",
     systemPrompt |-> "absent"]

MeShapes ==
    {NoMe}
    \cup {[kind |-> "object", base |-> b, isBuiltByAgentBuilder |-> f, systemPrompt |-> s] :
            b \in BOOLEAN, f \in {"absent", "false", "true", "string"},
            s \in {"absent", "string", "number"}}

\* the me member of an agent that was not built by the agent builder
PlainMe ==
    [kind |-> "object", base |-> TRUE, isBuiltByAgentBuilder |-> "false",
     systemPrompt |-> "absent"]

NoBody ==
    [kind |-> "undefined", type |-> "absent", me |-> NoMe, task |-> FALSE,
     messages |-> FALSE, extra |-> FALSE]

Bodies ==
    {NoBody}
    \cup {[kind |-> "object", type |-> t, me |-> PlainMe, task |-> a, messages |-> b,
           extra |-> x] :
            t \in ActionTypes \cup {"invalid-action", "absent"},
            a \in BOOLEAN, b \in BOOLEAN, x \in BOOLEAN}

\* bodies of either variant, complete but for the me member
ActionPayloads ==
    {[kind |-> "object", type |-> t, me |-> me, task |-> TRUE, messages |-> TRUE,
      extra |-> FALSE] : t \in ActionTypes, me \in MeShapes}

InvalidDiscriminator(received) ==
    [name |-> "ZodError",
     message |-> "Invalid discriminator value. Expected 'do-task' | 'respond-chat-message'",
     issues |-> <<[path |-> <<"type">>,
                   expected |-> "'do-task' | 'respond-chat-message'",
                   received |-> received]>>]

\* the me schema keeps every member of the input
meSchemaParse_passthrough(me, discriminated) ==
    LET missing == IF me.systemPrompt = "absent" THEN "undefined" ELSE me.systemPrompt
        right ==
            IF me.isBuiltByAgentBuilder = "false" THEN <<>>
            ELSE IF me.isBuiltByAgentBuilder = "true" /\ me.systemPrompt = "string" THEN <<>>
            ELSE <<[path |-> <<"me", "systemPrompt">>, expected |-> "string",
                    received |-> missing]>>
        issues == IF me.kind # "object"
                  THEN <<[path |-> <<"me">>, expected |-> "object", received |-> me.kind]>>
                  ELSE IF me.base THEN right
                  ELSE <<[path |-> <<"me", "id">>, expected |-> "number",
                          received |-> "undefined"]>> \o right
    IN  [ok |-> issues = <<>>, issues |-> issues, value |-> me]

\* the me schema of a variant: the intersection of the object schema of id,
\* name and kind with the union (do-task) or the discriminated union
\* (respond-chat-message) on isBuiltByAgentBuilder. Both sides parse the
\* input, each object schema strips the members it does not declare, and
\* the two outputs are merged
meSchemaParse(me, discriminated) ==
    LET flag == me.isBuiltByAgentBuilder
        left ==
            IF me.kind # "object"
            THEN <<[path |-> <<"me">>, expected |-> "object", received |-> me.kind]>>
            ELSE IF ~me.base
            THEN <<[path |-> <<"me", "id">>, expected |-> "number",
                    received |-> "undefined"]>>
            ELSE <<>>
        right ==
            IF me.kind # "object"
            THEN <<[path |-> <<"me">>, expected |-> "object", received |-> me.kind]>>
            ELSE IF flag = "false" THEN <<>>
            ELSE IF flag = "true" /\ me.systemPrompt = "string" THEN <<>>
            ELSE IF ~discriminated
            THEN <<[path |-> <<"me">>, expected |-> "union", received |-> "invalid"]>>
            ELSE IF flag = "true"
            THEN <<[path |-> <<"me", "systemPrompt">>, expected |-> "string",
                    received |-> IF me.systemPrompt = "absent" THEN "undefined"
                                 ELSE me.systemPrompt]>>
            ELSE <<[path |-> <<"me", "isBuiltByAgentBuilder">>,
                    expected |-> "false | true",
                    received |-> IF flag = "absent" THEN "undefined" ELSE flag]>>
        issues == left \o right
    IN  [ok |-> issues = <<>>, issues |-> issues,
         value |-> [kind |-> "object", base |-> TRUE, isBuiltByAgentBuilder |-> flag,
                    systemPrompt |-> IF flag = "true" THEN me.systemPrompt
                                     ELSE "absent"]]

\* actionSchema.parseAsync(body): the discriminated union on type; the
\* variant's object schema validates its members in the order of its shape,
\* collects their issues, and strips the members it does not declare
actionSchemaParse(body) ==
    IF body.kind # "object"
    THEN [ok |-> FALSE, value |-> body, error |-> ZodError(<<>>, "object", body.kind)]
    ELSE IF body.type \notin ActionTypes
    THEN [ok |-> FALSE, value |-> body, error |-> InvalidDiscriminator(body.type)]
    ELSE LET me == meSchemaParse(body.me, body.type = "respond-chat-message")
             member ==
                 IF body.type = "do-task"
                 THEN IF body.task THEN <<>>
                      ELSE ZodError(<<"task">>, "object", "undefined").issues
                 ELSE IF body.messages THEN <<>>
                      ELSE ZodError(<<"messages">>, "array", "undefined").issues
             issues == me.issues \o member
         IN  IF issues # <<>>
             THEN [ok |-> FALSE, value |-> body,
                   error |-> [ZodError(issues[1].path, issues[1].expected,
                                       issues[1].received) EXCEPT !.issues = issues]]
             ELSE [ok |-> TRUE,
                   value |-> IF body.type = "do-task"
                             THEN [body EXCEPT !.me = me.value, !.messages = FALSE,
                                               !.extra = FALSE]
                             ELSE [body EXCEPT !.me = me.value, !.task = FALSE,
                                               !.extra = FALSE],
                   error |-> NoError]

SystemMessage == [role |-> "system", content |-> "You are a test agent"]

\* tools: this.tools.map(convertToolToJsonSchema)
ToolShapes ==
    [i \in 1..Len(tools) |->
        [name |-> tools[i].name, description |-> tools[i].description,
         schema |-> tools[i].schema]]

\* doTask up to its await: the body posted to /execute
DoTaskPost(action) ==
    [path |-> "/execute", tools |-> ToolShapes,
     messages |-> IF action.task
                  THEN <<SystemMessage, [role |-> "user", content |-> "Do the task"]>>
                  ELSE <<SystemMessage>>,
     action |-> action]

\* respondToChat up to its await: the body posted to /chat
RespondToChatPost(action) ==
    [path |-> "/chat", tools |-> ToolShapes,
     messages |-> IF action.messages
                  THEN <<SystemMessage, [role |-> "user", content |-> "Hello"]>>
                  ELSE <<SystemMessage>>,
     action |-> action]

\* one invocation of doTask or respondToChat, started by request req
Handler(kind, req, action, post) ==
    [kind |-> kind, req |-> req, action |-> action, post |-> post, state |-> "posting"]

\* entry up to the await of actionSchema.parseAsync
RootRouteStart(body) ==
    /\ root.pc \in {"idle", "done"}
    /\ root.n < MaxRequests
    /\ root' = [root EXCEPT !.pc = "parsing", !.n = @ + 1,
                            !.bodies = Append(@, body), !.settle = "pending"]
    /\ thrown' = NoError
    /\ lastCall' = NoCall
    /\ UNCHANGED <<client, http, options, tools, route, proc, runLog, errLog>>

\* the catch block rethrows after notifying the handler
RootRouteParsed_rethrows ==
    /\ root.pc = "parsing"
    /\ LET r == actionSchemaParse(root.bodies[root.n])
           action == r.value
       IN  IF ~r.ok
           THEN /\ errLog' = handleError(errLog, r.error, "handle_root_route")
                /\ root' = [root EXCEPT !.pc = "done", !.settle = "rejected"]
           ELSE /\ root' = [root EXCEPT !.pc = "done", !.settle = "resolved",
                               !.handlers = Append(@,
                                   IF action.type = "do-task"
                                   THEN Handler("doTask", root.n, action, DoTaskPost(action))
                                   ELSE Handler("respondToChat", root.n, action,
                                                RespondToChatPost(action)))]
                /\ errLog' = errLog
    /\ UNCHANGED <<client, http, options, tools, thrown, lastCall, route, proc, runLog>>

\* every valid action goes to doTask
RootRouteParsed_doTaskOnly ==
    /\ root.pc = "parsing"
    /\ LET r == actionSchemaParse(root.bodies[root.n])
           action == r.value
       IN  IF ~r.ok
           THEN /\ errLog' = handleError(errLog, r.error, "handle_root_route")
                /\ root' = [root EXCEPT !.pc = "done", !.settle = "resolved"]
           ELSE /\ root' = [root EXCEPT !.pc = "done", !.settle = "resolved",
                               !.handlers = Append(@,
                                   Handler("doTask", root.n, action, DoTaskPost(action)))]
                /\ errLog' = errLog
    /\ UNCHANGED <<client, http, options, tools, thrown, lastCall, route, proc, runLog>>

\* the body is dispatched on its type member without validation
RootRouteParsed_unvalidated ==
    /\ root.pc = "parsing"
    /\ LET action == root.bodies[root.n]
       IN  IF action.type \notin ActionTypes
           THEN /\ errLog' = handleError(errLog, Err("Error", "Invalid action type"),
                                         "handle_root_route")
                /\ root' = [root EXCEPT !.pc = "done", !.settle = "resolved"]
           ELSE /\ root' = [root EXCEPT !.pc = "done", !.settle = "resolved",
                               !.handlers = Append(@,
                                   IF action.type = "do-task"
                                   THEN Handler("doTask", root.n, action, DoTaskPost(action))
                                   ELSE Handler("respondToChat", root.n, action,
                                                RespondToChatPost(action)))]
                /\ errLog' = errLog
    /\ UNCHANGED <<client, http, options, tools, thrown, lastCall, route, proc, runLog>>

\* the route awaits the handler it started
RootRouteParsed_awaits ==
    /\ root.pc = "parsing"
    /\ LET r == actionSchemaParse(root.bodies[root.n])
           action == r.value
       IN  IF ~r.ok
           THEN /\ errLog' = handleError(errLog, r.error, "handle_root_route")
                /\ root' = [root EXCEPT !.pc = "done", !.settle = "resolved"]
           ELSE /\ root' = [root EXCEPT !.pc = "done", !.settle = "pending",
                               !.handlers = Append(@,
                                   IF action.type = "do-task"
                                   THEN Handler("doTask", root.n, action, DoTaskPost(action))
                                   ELSE Handler("respondToChat", root.n, action,
                                                RespondToChatPost(action)))]
                /\ errLog' = errLog
    /\ UNCHANGED <<client, http, options, tools, thrown, lastCall, route, proc, runLog>>

\* parseAsync settles: the catch block, or the dispatch on action.type; the
\* handler runs up to its await and the route returns without awaiting it
RootRouteParsed ==
    /\ root.pc = "parsing"
    /\ LET r == actionSchemaParse(root.bodies[root.n])
           action == r.value
       IN  IF ~r.ok
           THEN /\ errLog' = handleError(errLog, r.error, "handle_root_route")
                /\ root' = [root EXCEPT !.pc = "done", !.settle = "resolved"]
           ELSE IF action.type = "do-task"
           THEN /\ root' = [root EXCEPT !.pc = "done", !.settle = "resolved",
                               !.handlers = Append(@,
                                   Handler("doTask", root.n, action, DoTaskPost(action)))]
                /\ errLog' = errLog
           ELSE IF action.type = "respond-chat-message"
           THEN /\ root' = [root EXCEPT !.pc = "done", !.settle = "resolved",
                               !.handlers = Append(@,
                                   Handler("respondToChat", root.n, action,
                                           RespondToChatPost(action)))]
                /\ errLog' = errLog
           ELSE /\ errLog' = handleError(errLog, Err("Error", "Invalid action type"),
                                         "handle_root_route")
                /\ root' = [root EXCEPT !.pc = "done", !.settle = "resolved"]
    /\ UNCHANGED <<client, http, options, tools, thrown, lastCall, route, proc, runLog>>

\* the catch block of the handler notifies the error handler and rethrows
RuntimePostSettles_rethrows(k, ok) ==
    /\ k \in 1..Len(root.handlers)
    /\ root.handlers[k].state = "posting"
    /\ IF ok
       THEN /\ root' = [root EXCEPT !.handlers[k].state = "returned"]
            /\ errLog' = errLog
       ELSE /\ root' = [root EXCEPT !.handlers[k].state = "rejected"]
            /\ errLog' = Append(errLog,
                                [error |-> Err("Error", "Runtime request failed"),
                                 context |-> IF root.handlers[k].kind = "doTask"
                                             THEN "do_task" ELSE "respond_to_chat",
                                 action |-> root.handlers[k].action])
    /\ UNCHANGED <<client, http, options, tools, thrown, lastCall, route, proc, runLog>>

\* the runtimeClient.post of a handler settles: the handler returns, or its
\* catch block calls this.handleError(error, {action, context}) and returns
RuntimePostSettles(k, ok) ==
    /\ k \in 1..Len(root.handlers)
    /\ root.handlers[k].state = "posting"
    /\ IF ok
       THEN /\ root' = [root EXCEPT !.handlers[k].state = "returned"]
            /\ errLog' = errLog
       ELSE /\ root' = [root EXCEPT !.handlers[k].state = "contained"]
            /\ errLog' = Append(errLog,
                                [error |-> Err("Error", "Runtime request failed"),
                                 context |-> IF root.handlers[k].kind = "doTask"
                                             THEN "do_task" ELSE "respond_to_chat",
                                 action |-> root.handlers[k].action])
    /\ UNCHANGED <<client, http, options, tools, thrown, lastCall, route, proc, runLog>>

\* the registry the handlers post: empty, or the echo capability
RootPool == {c \in CapabilityPool : c.name = "echo"}

NextRoot ==
    \/ \E c \in RootPool : AddCapability(c)
    \/ \E body \in Bodies : RootRouteStart(body)
    \/ RootRouteParsed
    \/ \E k \in 1..MaxRequests, ok \in BOOLEAN : RuntimePostSettles(k, ok)

SpecRoot == Init /\ [][NextRoot]_vars

\* the root route over the payloads that vary the me member
NextValidate ==
    \/ \E body \in ActionPayloads : RootRouteStart(body)
    \/ RootRouteParsed

SpecValidate == Init /\ [][NextValidate]_vars

(***************************************************************************)
(* Properties of handleToolRoute (SpecRoute).                              *)
(***************************************************************************)
\* the calls of run made for the request being served
RouteRuns == SelectSeq(runLog, LAMBDA e : e.via = "route" /\ e.id = route.n)

RouteToolRegistered == route.req.hasToolName /\ HasTool(route.req.toolName)

RouteArgsValid ==
    /\ RouteToolRegistered
    /\ parseAsync(FindTool(route.req.toolName).schema, route.req.args).ok

\* C1: a registered capability dispatched with args that satisfy its schema
\* has its run invoked exactly once, no other capability's run is invoked,
\* and the route resolves to {result: the string run returned}
Thm_C1_ValidDispatchRunsOnce ==
    (route.pc # "idle" /\ RouteArgsValid) =>
        /\ \A i \in 1..Len(RouteRuns) :
              RouteRuns[i].tool.name = route.req.toolName
        /\ Len(RouteRuns) <= 1
        /\ route.pc \in {"running", "done"} => Len(RouteRuns) = 1
        /\ (route.pc = "done" /\ route.ran.kind = "return") =>
              route.response = [kind |-> "result", value |-> route.ran.value]

Wit_C1_ValidDispatchRunsOnce ==
    /\ route.pc = "done"
    /\ RouteArgsValid
    /\ Len(tools) = 2
    /\ route.response = [kind |-> "result", value |-> "hi"]

\* C2: every invocation of a capability's run, by handleToolRoute and by the
\* process loop, gets args that are the output of a successful validation
\* against that capability's schema
Claim_C2_RunArgsValidated ==
    \A i \in 1..Len(runLog) :
        LET r == parseAsync(runLog[i].tool.schema, runLog[i].raw)
        IN  r.ok /\ runLog[i].args = r.value

\* C3: a registered capability dispatched through handleToolRoute with args
\* that violate its schema has no run invoked, its own or another's
Thm_C3_InvalidArgsNeverRun ==
    (route.pc # "idle" /\ RouteToolRegistered /\ ~RouteArgsValid) =>
        /\ Len(RouteRuns) = 0
        /\ route.pc # "running"

Wit_C3_InvalidArgsNeverRun ==
    /\ route.pc = "done"
    /\ RouteToolRegistered
    /\ ~RouteArgsValid
    /\ route.req.args.kind = "object"
    /\ route.response.kind = "error"

\* C4: a tool name that is not in the registry fails with the error
\* Tool "<name>" not found, handed to the error handler and carried by the
\* response, and no run is invoked
Thm_C4_UnknownToolNotFound ==
    (route.pc # "idle" /\ route.req.hasToolName /\ ~HasTool(route.req.toolName)) =>
        LET message == "Tool \"" \o route.req.toolName \o "\" not found"
        IN  /\ route.pc = "done"
            /\ Len(RouteRuns) = 0
            /\ route.response = [kind |-> "error", value |-> message]
            /\ Len(errLog) > 0
            /\ errLog[Len(errLog)].error.name = "BadRequest"
            /\ errLog[Len(errLog)].error.message = message
            /\ errLog[Len(errLog)].context = "handle_tool_route"

Wit_C4_UnknownToolNotFound ==
    /\ route.pc = "done"
    /\ route.req.hasToolName
    /\ ~HasTool(route.req.toolName)
    /\ Len(tools) > 0

(***************************************************************************)
(* Properties of process (SpecProcess).                                    *)
(***************************************************************************)
\* the calls of run made by invocation p of process
ProcRuns(p) == SelectSeq(runLog, LAMBDA e : e.via = "process" /\ e.id = p)

Settled(p) == proc[p].pc \in {"returned", "rejected"}

RoundCalls(r) == r.completion.choices[1].message.tool_calls

\* the first n answers requested tool calls
AllTools(rs, n) == \A i \in 1..n : rs[i].kind = "tools"

\* the length of the conversation after the first n rounds of invocation p
RECURSIVE Offset(_, _)
Offset(p, n) ==
    IF n = 0 THEN Len(proc[p].messages)
    ELSE Offset(p, n - 1) + 1 + Len(RoundCalls(proc[p].responses[n]))

\* C5: process makes at most 10 collaborator calls; when each of the first
\* 10 answers requests tool calls there is no 11th call and process fails
\* with the max-iterations error
Claim_C5_MaxIterations ==
    \A p \in Pids :
        /\ proc[p].calls <= 10
        /\ (Len(proc[p].responses) = 10 /\ AllTools(proc[p].responses, 10) /\ Settled(p)) =>
              /\ proc[p].calls = 10
              /\ proc[p].outcome.kind = "rejected"
              /\ proc[p].outcome.error.message = "Max iterations reached without completion"

\* the bound alone: never an 11th collaborator call
CallsBounded == \A p \in Pids : proc[p].calls <= 10 /\ Len(proc[p].responses) <= 10

\* C6: when the first answer requests no tool call, process returns that
\* completion after exactly one collaborator call and no run is invoked
Thm_C6_NoToolCallsReturns ==
    \A p \in Pids :
        (Len(proc[p].responses) >= 1 /\ proc[p].responses[1].kind = "final") =>
            /\ proc[p].pc = "returned"
            /\ proc[p].calls = 1
            /\ Len(proc[p].responses) = 1
            /\ proc[p].outcome.kind = "returned"
            /\ proc[p].outcome.completion = proc[p].responses[1].completion
            /\ Len(ProcRuns(p)) = 0

Wit_C6_NoToolCallsReturns ==
    /\ proc[1].pc = "returned"
    /\ proc[1].calls = 1
    /\ Len(tools) > 0
    /\ proc[1].outcome.completion.choices[1].message.content = "Hello"

\* C7: N < 10 answers that request tool calls followed by one that requests
\* none: N+1 collaborator calls, the last completion is returned, and each
\* round appended its assistant message and one tool-result message per
\* requested call
Thm_C7_RoundsThenFinal ==
    \A p \in Pids :
        LET rs == proc[p].responses
            n == Len(rs)
            cur == proc[p].currentMessages
        IN  (n >= 1 /\ rs[n].kind = "final" /\ AllTools(rs, n - 1)) =>
                /\ n - 1 < 10
                /\ proc[p].calls = n
                /\ proc[p].pc = "returned"
                /\ proc[p].outcome.kind = "returned"
                /\ proc[p].outcome.completion = rs[n].completion
                /\ Len(cur) = Offset(p, n - 1)
                /\ \A k \in 1..Len(proc[p].messages) : cur[k] = proc[p].messages[k]
                /\ \A j \in 1..(n - 1) :
                      /\ cur[Offset(p, j - 1) + 1] = rs[j].completion.choices[1].message
                      /\ \A i \in 1..Len(RoundCalls(rs[j])) :
                            cur[Offset(p, j - 1) + 1 + i].role = "tool"

Wit_C7_RoundsThenFinal ==
    /\ proc[1].pc = "returned"
    /\ Len(proc[1].responses) = 4
    /\ Len(RoundCalls(proc[1].responses[3])) = 2

\* the calls of the round in progress that failed
FailedCalls(p) ==
    {i \in 1..Len(proc[p].slots) :
        \/ proc[p].slots[i].state = "rejected"
        \/ /\ proc[p].slots[i].state = "resolved"
           /\ proc[p].slots[i].message.content.json = "object"}

BatchSettled(p) ==
    /\ Len(proc[p].slots) > 0
    /\ \A i \in 1..Len(proc[p].slots) : proc[p].slots[i].state # "running"

\* C8: when exactly one of the K tool calls of a round fails, whatever the
\* cause, the round has K tool-result messages, the failing call's carrying
\* an error payload, and process does not fail
Claim_C8_OneFailureContained ==
    \A p \in Pids :
        (BatchSettled(p) /\ Cardinality(FailedCalls(p)) = 1) =>
            /\ proc[p].pc # "rejected"
            /\ \A i \in 1..Len(proc[p].slots) :
                  /\ proc[p].slots[i].state = "resolved"
                  /\ proc[p].slots[i].message.role = "tool"
                  /\ i \in FailedCalls(p) =>
                        proc[p].slots[i].message.content.json = "object"

\* C9: a tool call whose arguments are not valid JSON fails only that call:
\* process does not fail with the parse error and every call of the round,
\* the malformed one and its siblings, ends with a tool-result message
Claim_C9_ParseErrorContained ==
    \A p \in Pids :
        /\ proc[p].outcome.error.name # "SyntaxError"
        /\ (BatchSettled(p) /\ \E i \in 1..Len(proc[p].slots) :
                CallFate(proc[p].completion.choices[1].message.tool_calls[i]) = "badjson") =>
              \A i \in 1..Len(proc[p].slots) : proc[p].slots[i].state = "resolved"

\* C10: within one invocation of process no requested tool call, identified
\* by its round and its tool-call id, has run invoked for it more than once
Thm_C10_AtMostOneRunPerCall ==
    \A i, j \in 1..Len(runLog) :
        (/\ runLog[i].via = "process"
         /\ runLog[j].via = "process"
         /\ runLog[i].id = runLog[j].id
         /\ runLog[i].round = runLog[j].round
         /\ runLog[i].call = runLog[j].call) => i = j

Wit_C10_AtMostOneRunPerCall ==
    /\ proc[1].pc = "returned"
    /\ Len(ProcRuns(1)) >= 2
    /\ \E k \in 1..Len(errLog) :
          errLog[k].context = "tool_execution" /\ errLog[k].error.message = "run failed"

(***************************************************************************)
(* Properties of error notification (SpecNested).                          *)
(***************************************************************************)
\* the invocations of the error handler so far
HandlerCalls == Len(errLog)

\* the failures that originated so far, in the route and in the processes
OriginatingFailures ==
    route.failures + proc[1].failures + proc[2].failures

\* no operation is in flight: every failure that originated has run its
\* course through the catch blocks
Quiescent ==
    /\ route.pc \in {"idle", "done"}
    /\ \A p \in Pids :
          /\ proc[p].pc \in {"idle", "returned", "rejected"}
          /\ \A i \in 1..Len(proc[p].slots) : proc[p].slots[i].state # "running"

\* C11: across any sequence of operations the error handler has been invoked
\* exactly once per originating failure, also when the failure of a process
\* called from inside a dispatched run passes through the route's catch block
Claim_C11_OncePerFailure == Quiescent => HandlerCalls = OriginatingFailures

(***************************************************************************)
(* Properties of the registry (SpecRegistry).                              *)
(***************************************************************************)
\* element i of the list carries a name of the registry or of an earlier
\* element
IsDuplicate(before, list, i) ==
    \/ \E k \in 1..Len(before) : before[k].name = list[i].name
    \/ \E j \in 1..(i - 1) : list[j].name = list[i].name

\* the index of the first duplicate of the list, 0 when it has none
FirstDuplicate(before, list) ==
    IF \E i \in 1..Len(list) : IsDuplicate(before, list, i)
    THEN CHOOSE i \in 1..Len(list) :
            /\ IsDuplicate(before, list, i)
            /\ \A j \in 1..(i - 1) : ~IsDuplicate(before, list, j)
    ELSE 0

\* the elements of the list ahead of its first duplicate
Registered(before, list) ==
    IF FirstDuplicate(before, list) = 0 THEN list
    ELSE SubSeq(list, 1, FirstDuplicate(before, list) - 1)

\* C15: after any sequence of addCapability and addCapabilities calls,
\* successful or failing, no two capabilities of the registry share a name
Thm_C15_NamesUnique ==
    \A i, j \in 1..Len(tools) : tools[i].name = tools[j].name => i = j

\* a full registry on which one more registration has just failed
Wit_C15_NamesUnique ==
    /\ Len(tools) = 3
    /\ lastCall.op = "addCapability"
    /\ thrown # NoError

\* C16: addCapability with a name the registry holds throws
\* 'Tool with name "<name>" already exists' and leaves the registry as it was:
\* the first registration stays with its description, schema and run
Thm_C16_DuplicateRejected ==
    (/\ lastCall.op = "addCapability"
     /\ IsDuplicate(lastCall.before, lastCall.list, 1))
    => /\ thrown = Err("Error", "Tool with name \"" \o lastCall.list[1].name
                                 \o "\" already exists")
       /\ tools = lastCall.before
       /\ \A k \in 1..Len(lastCall.before) :
             lastCall.before[k].name = lastCall.list[1].name
             => /\ tools[k].description = lastCall.before[k].description
                /\ tools[k].schema = lastCall.before[k].schema
                /\ tools[k].run = lastCall.before[k].run

\* a capability of another description, schema and run was offered under a
\* registered name
Wit_C16_DuplicateRejected ==
    /\ lastCall.op = "addCapability"
    /\ IsDuplicate(lastCall.before, lastCall.list, 1)
    /\ \A k \in 1..Len(lastCall.before) : lastCall.before[k] # lastCall.list[1]
    /\ thrown # NoError

\* C17: addCapabilities on a list whose element i is the first duplicate
\* throws the duplicate-name error of that element; the elements before i
\* stay registered, the elements from i on are not registered
Thm_C17_PartialRegistration ==
    (/\ lastCall.op = "addCapabilities"
     /\ FirstDuplicate(lastCall.before, lastCall.list) > 0)
    => LET i == FirstDuplicate(lastCall.before, lastCall.list)
       IN  /\ thrown = DuplicateName(lastCall.list[i].name)
           /\ tools = lastCall.before \o SubSeq(lastCall.list, 1, i - 1)

\* a list failed at its second element and its first element is registered
Wit_C17_PartialRegistration ==
    /\ lastCall.op = "addCapabilities"
    /\ FirstDuplicate(lastCall.before, lastCall.list) = 2
    /\ Len(tools) = Len(lastCall.before) + 1
    /\ tools[Len(tools)] = lastCall.list[1]
    /\ thrown # NoError

\* C18: the registry keeps insertion order: every registry call leaves the
\* capabilities registered before it in place and appends the new ones in
\* the order of the call, and the function descriptors follow the registry
Thm_C18_InsertionOrder ==
    /\ lastCall.op # "none"
       => tools = lastCall.before \o Registered(lastCall.before, lastCall.list)
    /\ Len(openAiTools) = Len(tools)
    /\ \A i \in 1..Len(tools) :
          /\ openAiTools[i].name = tools[i].name
          /\ openAiTools[i].description = tools[i].description

\* three capabilities registered by two calls, a list of two after a single
\* one
Wit_C18_InsertionOrder ==
    /\ lastCall.op = "addCapabilities"
    /\ Len(lastCall.before) = 1 /\ Len(lastCall.list) = 2
    /\ thrown = NoError
    /\ Len(tools) = 3
    /\ openAiTools[1].name = lastCall.before[1].name
    /\ openAiTools[3].name = lastCall.list[2].name

(***************************************************************************)
(* Properties of handleRootRoute (SpecRoot).                               *)
(***************************************************************************)
\* the bodies of the requests handleRootRoute has finished with
RootFinished ==
    SubSeq(root.bodies, 1, IF root.pc = "parsing" THEN root.n - 1 ELSE root.n)

\* the doTask/respondToChat invocations request i started
HandlersOf(i) == SelectSeq(root.handlers, LAMBDA h : h.req = i)

\* the error handler's invocations with context handle_root_route
RootErrors == SelectSeq(errLog, LAMBDA e : e.context = "handle_root_route")

\* C12: a payload that fails Action validation never reaches doTask or
\* respondToChat, and the error handler is invoked exactly once for it, with
\* context handle_root_route and the validation error
Thm_C12_InvalidActionContained ==
    LET invalid == SelectSeq(RootFinished, LAMBDA b : ~actionSchemaParse(b).ok)
    IN  /\ \A i \in 1..Len(RootFinished) :
              ~actionSchemaParse(RootFinished[i]).ok => HandlersOf(i) = <<>>
        /\ Len(RootErrors) = Len(invalid)
        /\ \A k \in 1..Len(invalid) :
              /\ k <= Len(RootErrors)
              /\ RootErrors[k].error = actionSchemaParse(invalid[k]).error
              /\ RootErrors[k].error.name = "ZodError"

\* an unknown type and then a do-task payload without task were served
Wit_C12_InvalidActionContained ==
    /\ root.pc = "done" /\ root.n = 2
    /\ root.bodies[1].kind = "object" /\ root.bodies[1].type = "invalid-action"
    /\ root.bodies[2].kind = "object" /\ root.bodies[2].type = "do-task"
    /\ ~root.bodies[2].task
    /\ Len(RootErrors) = 2
    /\ RootErrors[2].error.issues[1].path = <<"task">>
    /\ root.handlers = <<>>

Thm_C14_DispatchByType ==
    \A i \in 1..Len(RootFinished) :
        LET r == actionSchemaParse(RootFinished[i])
        IN  r.ok =>
              /\ Len(HandlersOf(i)) = 1
              /\ HandlersOf(i)[1].action = r.value
              /\ HandlersOf(i)[1].kind =
                    (IF RootFinished[i].type = "do-task" THEN "doTask"
                     ELSE "respondToChat")

\* a do-task payload with an undeclared member and a respond-chat-message
\* payload were served
Wit_C14_DispatchByType ==
    /\ root.pc = "done" /\ root.n = 2
    /\ root.bodies[1].type = "do-task" /\ root.bodies[1].extra
    /\ root.bodies[2].type = "respond-chat-message"
    /\ Len(root.handlers) = 2
    /\ root.handlers[1].kind = "doTask" /\ ~root.handlers[1].action.extra
    /\ root.handlers[2].kind = "respondToChat"

(***************************************************************************)
(* How a failed dispatch reaches the caller of handleToolRoute (SpecRoute). *)
(***************************************************************************)
\* the dispatch that has just finished failed: the tool name was missing or
\* not registered, the args violate the tool's schema, or run threw
RouteFailed ==
    /\ route.pc = "done"
    /\ \/ ~route.req.hasToolName
       \/ ~HasTool(route.req.toolName)
       \/ ~parseAsync(FindTool(route.req.toolName).schema, route.req.args).ok
       \/ route.ran.kind = "throw"

\* the message of the error the failed dispatch ran into
RouteFailureMessage ==
    IF ~route.req.hasToolName THEN "Tool name is required"
    ELSE IF ~HasTool(route.req.toolName)
    THEN "Tool \"" \o route.req.toolName \o "\" not found"
    ELSE IF ~parseAsync(FindTool(route.req.toolName).schema, route.req.args).ok
    THEN parseAsync(FindTool(route.req.toolName).schema, route.req.args).error.message
    ELSE route.ran.error.message

Claim_C20_FailureRejects ==
    RouteFailed =>
        /\ route.response = [kind |-> "thrown", value |-> RouteFailureMessage]
        /\ Len(errLog) > 0
        /\ errLog[Len(errLog)].context = "handle_tool_route"

Thm_C22_ProcessFailureRethrown ==
    \A p \in Solo :
        LET notified == SelectSeq(errLog, LAMBDA e : e.context = "process")
            last == proc[p].responses[Len(proc[p].responses)]
        IN  IF proc[p].pc # "rejected" THEN notified = <<>>
            ELSE /\ Len(notified) = 1
                 /\ proc[p].outcome.kind = "rejected"
                 /\ proc[p].outcome.error = notified[1].error
                 /\ ~options.openaiApiKey =>
                        notified[1].error.message = "OpenAI API key is required for process(). Please provide it in options or set OPENAI_API_KEY environment variable."
                 /\ (options.openaiApiKey /\ last.kind = "throw")
                        => notified[1].error.message = "OpenAI API error"
                 /\ (options.openaiApiKey /\ last.kind = "empty")
                        => notified[1].error.message = "No response from OpenAI"
                 /\ proc[p].iterationCount = MAX_ITERATIONS
                        => notified[1].error.message =
                              "Max iterations reached without completion"

\* the collaborator call of the second round threw
Wit_C22_ProcessFailureRethrown ==
    /\ proc[1].pc = "rejected"
    /\ Len(proc[1].responses) = 2
    /\ proc[1].responses[2].kind = "throw"
    /\ proc[1].outcome.error.message = "OpenAI API error"
    /\ errLog[Len(errLog)] = [error |-> proc[1].outcome.error, context |-> "process"]

\* C23: process without a chat-completion credential fails with the error
\* OpenAI API key is required for process(), makes no collaborator call and
\* invokes no run
Thm_C23_NoCredentialFailsFast ==
    \A p \in Solo :
        (~options.openaiApiKey /\ proc[p].pc # "idle") =>
            /\ proc[p].pc = "rejected"
            /\ proc[p].outcome.error = Err("Error", "OpenAI API key is required for process(). Please provide it in options or set OPENAI_API_KEY environment variable.")
            /\ proc[p].calls = 0
            /\ proc[p].responses = <<>>
            /\ runLog = <<>>

\* process was called without the credential on an agent with two
\* capabilities
Wit_C23_NoCredentialFailsFast ==
    /\ ~options.openaiApiKey
    /\ proc[1].pc = "rejected"
    /\ Len(tools) = 2
    /\ Len(errLog) = 1

\* C24: a collaborator response without a choice, or whose first choice has
\* no message, makes process fail with No response from OpenAI; no tool is
\* executed for it and no further collaborator call is made
Thm_C24_EmptyResponseFails ==
    \A p \in Solo :
        \A i \in 1..Len(proc[p].responses) :
            proc[p].responses[i].kind = "empty" =>
                /\ i = Len(proc[p].responses)
                /\ proc[p].calls = i
                /\ proc[p].pc = "rejected"
                /\ proc[p].outcome.error = Err("Error", "No response from OpenAI")
                /\ \A k \in 1..Len(runLog) : runLog[k].round < i

\* the answer of the second round has a choice without a message, after a
\* round that ran a tool
Wit_C24_EmptyResponseFails ==
    /\ Len(proc[1].responses) = 2
    /\ proc[1].responses[2].kind = "empty"
    /\ Len(proc[1].responses[2].completion.choices) = 1
    /\ Len(runLog) > 0
    /\ proc[1].pc = "rejected"

(***************************************************************************)
(* The default doTask and respondToChat handlers (SpecRoot).               *)
(***************************************************************************)
\* C25: the default doTask and respondToChat never reject: a failed runtime
\* call is contained and reported to the error handler exactly once, with
\* the action and context do_task or respond_to_chat
Thm_C25_HandlerFailureContained ==
    /\ \A k \in 1..Len(root.handlers) :
          root.handlers[k].state \in {"posting", "returned", "contained"}
    /\ \A kind \in {"doTask", "respondToChat"} :
          \A k \in 1..Len(root.handlers) :
              LET action == root.handlers[k].action
                  tag == IF kind = "doTask" THEN "do_task" ELSE "respond_to_chat"
                  failed == SelectSeq(root.handlers,
                                      LAMBDA h : /\ h.kind = kind /\ h.action = action
                                                 /\ h.state # "posting"
                                                 /\ h.state # "returned")
                  reports == SelectSeq(errLog,
                                       LAMBDA e : /\ e.context = tag
                                                  /\ e.action = action)
              IN  Len(reports) = Len(failed)

\* the runtime call of a doTask and of a respondToChat failed
Wit_C25_HandlerFailureContained ==
    /\ Len(root.handlers) = 2
    /\ root.handlers[1].kind = "doTask" /\ root.handlers[1].state = "contained"
    /\ root.handlers[2].kind = "respondToChat" /\ root.handlers[2].state = "contained"
    /\ Len(errLog) = 2
    /\ errLog[1].context = "respond_to_chat" /\ errLog[2].context = "do_task"

(***************************************************************************)
(* Properties of the constructor (SpecConstruct).                          *)
(***************************************************************************)
\* C26: new Agent without the platform credential throws in the
\* constructor, and no Agent exists without the credential: while none has
\* been constructed no operation has acted
Thm_C26_ConstructorFailsFast ==
    /\ (lastCall.op = "constructor" /\ ~lastCall.list[1].apiKey) =>
          /\ ~options.constructed
          /\ thrown.message = "OpenServ API key is required. Please provide it in options or set OPENSERV_API_KEY environment variable."
    /\ options.constructed => options.apiKey
    /\ ~options.constructed =>
          /\ tools = <<>> /\ route = RouteIdle
          /\ runLog = <<>> /\ errLog = <<>>

\* a construction without the credential has just failed
Wit_C26_ConstructorFailsFast ==
    /\ lastCall.op = "constructor"
    /\ ~lastCall.list[1].apiKey /\ lastCall.list[1].openaiApiKey
    /\ thrown # NoError
    /\ ~options.constructed

(***************************************************************************)
(* Properties of start and stop (SpecLifecycleFair).                       *)
(***************************************************************************)
\* C27: stop() always resolves: at once when the agent was never started,
\* else once the server it closed has emitted close, and that server is then
\* not listening; start() resolves only when its server is bound and rejects
\* on a bind error
Thm_C27_LifecycleSettles ==
    /\ [](\A i \in 1..Len(http.calls) :
            LET c == http.calls[i]
            IN  /\ (c.op = "stop" /\ c.server = 0) => c.state = "resolved"
                /\ (c.op = "stop" /\ c.server > 0 /\ c.state = "resolved")
                      => http.servers[c.server].state = "closed"
                /\ (c.op = "start" /\ c.state = "resolved")
                      => http.servers[c.server].bound
                /\ (c.op = "start" /\ http.servers[c.server].state = "failed")
                      => c.state = "rejected"
                /\ (c.op = "start" /\ c.state = "rejected")
                      => ~http.servers[c.server].bound)
    /\ \A i \in 1..MaxLifecycleCalls :
          (i <= Len(http.calls) /\ http.calls[i].op = "stop")
          ~> (i <= Len(http.calls) /\ http.calls[i].state = "resolved")

\* stop before any start, then a start and a stop that both resolved, then a
\* start that met a bind error
Wit_C27_LifecycleSettles ==
    /\ Len(http.calls) = 4
    /\ http.calls[1] = LifecycleCall("stop", 0, "resolved")
    /\ http.calls[2] = LifecycleCall("start", 1, "resolved")
    /\ http.calls[3] = LifecycleCall("stop", 1, "resolved")
    /\ http.calls[4] = LifecycleCall("start", 2, "rejected")
    /\ http.servers[1].state = "closed"

(***************************************************************************)
(* Rounds of process (SpecProcess).                                        *)
(***************************************************************************)
\* C28: iterations are sequential: while process is at the head of its loop
\* or waits for the collaborator, every run it started has settled
Thm_C28_IterationsSequential ==
    \A p \in Solo :
        proc[p].pc \in {"loop", "awaitCompletion"} =>
            /\ proc[p].settled = Len(ProcRuns(p))
            /\ \A i \in 1..Len(proc[p].slots) : proc[p].slots[i].state # "running"

\* the second collaborator call is out after a round of two runs
Wit_C28_IterationsSequential ==
    /\ proc[1].pc = "awaitCompletion"
    /\ proc[1].calls = 2
    /\ Len(ProcRuns(1)) = 2
    /\ proc[1].settled = 2

\* C29: in whatever order the runs of a round complete, the round extends
\* the conversation by the assistant message and then the tool-result
\* messages in the order of its tool_calls, each with the id of its call;
\* nothing else changes the conversation of an invocation under way
Thm_C29_ResultsInCallOrder ==
    [][\A p \in Solo :
          LET cur == proc[p].currentMessages
              next == proc'[p].currentMessages
              lastMessage == proc[p].completion.choices[1].message
          IN  /\ (proc[p].pc = "awaitTools" /\ proc'[p].pc = "loop") =>
                    /\ Len(next) = Len(cur) + 1 + Len(lastMessage.tool_calls)
                    /\ SubSeq(next, 1, Len(cur)) = cur
                    /\ next[Len(cur) + 1] = lastMessage
                    /\ \A i \in 1..Len(lastMessage.tool_calls) :
                          /\ next[Len(cur) + 1 + i].role = "tool"
                          /\ next[Len(cur) + 1 + i].tool_call_id =
                                lastMessage.tool_calls[i].id
                          /\ next[Len(cur) + 1 + i] = proc[p].slots[i].message
              /\ (proc[p].pc # "idle" /\ next # cur) =>
                    (proc[p].pc = "awaitTools" /\ proc'[p].pc = "loop")]_vars

\* the second run of a round completed ahead of the first and the round's
\* messages are in the conversation
Wit_C29_ResultsInCallOrder ==
    /\ proc[1].pc = "loop"
    /\ proc[1].iterationCount = 1
    /\ proc[1].order = <<2, 1>>
    /\ Len(proc[1].currentMessages) = Len(proc[1].messages) + 3
    /\ proc[1].currentMessages[Len(proc[1].messages) + 2].tool_call_id
          = RoundCalls(proc[1].responses[1])[1].id
    /\ proc[1].currentMessages[Len(proc[1].messages) + 2].content
          # proc[1].currentMessages[Len(proc[1].messages) + 3].content

\* C30: a tool call that names an unregistered tool, or whose run throws,
\* fails alone: its tool-result content is {error: message}, the error
\* handler is notified with context tool_execution, and process does not
\* fail over it
Thm_C30_CallFailureContained ==
    \A p \in Solo :
        LET cur == proc[p].currentMessages
            results ==
                SelectSeq(cur, LAMBDA m : m.role = "tool")
                \o [i \in 1..Len(proc[p].slots) |-> proc[p].slots[i].message]
            errors ==
                SelectSeq(results, LAMBDA m : m.tool_call_id > 0 /\ m.content.json = "object")
            notified == SelectSeq(errLog, LAMBDA e : e.context = "tool_execution")
            rs == proc[p].responses
        IN  /\ Len(notified) = Len(errors)
            /\ \A k \in 1..Len(notified) :
                  \E m \in 1..Len(errors) :
                      errors[m].content = [json |-> "object",
                                           value |-> notified[k].error.message]
            /\ \A i \in 1..Len(proc[p].slots) :
                  CallFate(RoundCalls(rs[Len(rs)])[i]) = "notfound" =>
                      /\ proc[p].slots[i].state = "resolved"
                      /\ proc[p].slots[i].message.content =
                            [json |-> "object",
                             value |-> "Tool \"" \o RoundCalls(rs[Len(rs)])[i].name
                                                  \o "\" not found"]
            /\ (/\ proc[p].pc = "rejected"
                /\ options.openaiApiKey
                /\ rs[Len(rs)].kind = "tools"
                /\ proc[p].iterationCount < MAX_ITERATIONS)
                  => \E i \in 1..Len(RoundCalls(rs[Len(rs)])) :
                        CallFate(RoundCalls(rs[Len(rs)])[i]) \in {"nofunction", "badjson"}

\* a round with an unregistered tool and a run that threw has settled and
\* process goes on
Wit_C30_CallFailureContained ==
    /\ proc[1].pc = "loop"
    /\ proc[1].iterationCount = 1
    /\ Len(errLog) = 2
    /\ errLog[1].context = "tool_execution" /\ errLog[2].context = "tool_execution"
    /\ errLog[1].error.message = "Tool \"ghost\" not found"
    /\ errLog[2].error.message = "run failed"

(***************************************************************************)
(* The root route and its handlers (SpecRoot).                             *)
(***************************************************************************)
\* C31: handleRootRoute does not wait for the handler it started: once the
\* handler is started the route has resolved, whatever the state of the
\* handler's runtime request, and the settling of that request changes
\* nothing of the route
Thm_C31_FireAndForget ==
    /\ [](\A k \in 1..Len(root.handlers) :
            root.handlers[k].req = root.n =>
                root.pc = "done" /\ root.settle = "resolved")
    /\ [][(\E k \in 1..Len(root.handlers) :
              root.handlers[k].state # root'.handlers[k].state) =>
            (/\ root'.pc = root.pc
             /\ root'.settle = root.settle
             /\ root'.n = root.n
             /\ root'.bodies = root.bodies)]_vars

\* the route of the second request has resolved while the runtime requests
\* of both handlers are pending
Wit_C31_FireAndForget ==
    /\ root.n = 2
    /\ root.pc = "done"
    /\ root.settle = "resolved"
    /\ Len(root.handlers) = 2
    /\ root.handlers[1].state = "posting"
    /\ root.handlers[2].state = "posting"
    /\ root.handlers[2].req = 2

(***************************************************************************)
(* Validation of the me member (SpecValidate).                             *)
(***************************************************************************)
\* C32: in every action accepted by validation, of either variant,
\* me.systemPrompt is present exactly when me.isBuiltByAgentBuilder is true:
\* a body with the flag true and no systemPrompt is rejected, and the
\* validated action of a body with the flag false has no systemPrompt
Thm_C32_SystemPromptIffBuilder ==
    /\ \A k \in 1..Len(root.handlers) :
          LET me == root.handlers[k].action.me
              sent == root.bodies[root.handlers[k].req].me
          IN  /\ me.systemPrompt # "absent" <=> me.isBuiltByAgentBuilder = "true"
              /\ me.isBuiltByAgentBuilder \in {"true", "false"}
              /\ me.isBuiltByAgentBuilder = sent.isBuiltByAgentBuilder
              /\ me.systemPrompt # "absent" => me.systemPrompt = sent.systemPrompt
    /\ \A n \in 1..Len(root.bodies) :
          (/\ root.bodies[n].kind = "object"
           /\ root.bodies[n].me.isBuiltByAgentBuilder = "true"
           /\ root.bodies[n].me.systemPrompt = "absent"
           /\ (n < root.n \/ root.pc = "done")) =>
              /\ \A k \in 1..Len(root.handlers) : root.handlers[k].req # n
              /\ \E e \in 1..Len(errLog) :
                    /\ errLog[e].context = "handle_root_route"
                    /\ errLog[e].error.name = "ZodError"

\* a respond-chat-message body with the flag false and a systemPrompt was
\* accepted without it, after a do-task body with the flag true and no
\* systemPrompt was rejected
Wit_C32_SystemPromptIffBuilder ==
    /\ root.n = 2 /\ root.pc = "done"
    /\ root.bodies[1].type = "do-task"
    /\ root.bodies[1].me.isBuiltByAgentBuilder = "true"
    /\ root.bodies[1].me.systemPrompt = "absent"
    /\ root.bodies[2].type = "respond-chat-message"
    /\ root.bodies[2].me.isBuiltByAgentBuilder = "false"
    /\ root.bodies[2].me.systemPrompt = "string"
    /\ Len(root.handlers) = 1
    /\ root.handlers[1].req = 2
    /\ root.handlers[1].action.me.systemPrompt = "absent"

(***************************************************************************)
(* The retry interceptor (SpecRetry).                                      *)
(***************************************************************************)
\* C33: a request is sent again only after a 502, and only while fewer than
\* maxRetries retries were made for it; the counter goes up with every
\* retry and is never reset, so a request is attempted at most
\* maxRetries + 1 times, then rejects; any other failure rejects at once
Thm_C33_RetryBounded ==
    \A k \in 1..Len(client) :
        LET r == client[k]
            n == Len(r.statuses)
        IN  /\ r.attempts <= maxRetries + 1
            /\ r.config._retryCount =
                  IF r.state = "delay" THEN r.attempts ELSE r.attempts - 1
            /\ \A i \in 1..(r.attempts - 1) : r.statuses[i] = 502
            /\ r.state = "delay" =>
                  r.statuses[n] = 502 /\ n = r.attempts /\ n <= maxRetries
            /\ r.state = "resolved" => r.statuses[n] = 200 /\ n = r.attempts
            /\ r.state = "rejected" =>
                  /\ n = r.attempts
                  /\ r.statuses[n] # 200
                  /\ r.statuses[n] = 502 => r.attempts = maxRetries + 1
            /\ (n > 0 /\ r.statuses[n] \notin {200, 502}) => r.state = "rejected"
            /\ (n = maxRetries + 1 /\ r.statuses[n] = 502) => r.state = "rejected"

\* one request met 502 four times and was rejected, another was rejected
\* at its first attempt with status 500
Wit_C33_RetryBounded ==
    /\ Len(client) = 2
    /\ client[1].state = "rejected"
    /\ client[1].attempts = maxRetries + 1
    /\ client[1].statuses = <<502, 502, 502, 502>>
    /\ client[2].state = "rejected"
    /\ client[2].attempts = 1
    /\ client[2].statuses = <<500>>

(***************************************************************************)
(* Settling of process and the runs it started (SpecProcess).              *)
(***************************************************************************)
\* C34: process does not return or reject while a run it started in the
\* round in progress is in flight
Claim_C34_NoSettleWhileRunning ==
    \A p \in Solo :
        Settled(p) =>
            \A i \in 1..Len(proc[p].slots) : proc[p].slots[i].state # "running"

(***************************************************************************)
(* Two invocations of process interleaved (SpecInterleaved).               *)
(***************************************************************************)
\* C35: the conversation belongs to one invocation of process: the messages
\* an invocation sends to the collaborator are its own seed messages and,
\* for each of its own rounds, the assistant message and the tool results
\* of that round; a step of one invocation leaves the conversation of the
\* other as it was
Thm_C35_ConversationPerInvocation ==
    /\ [](\A p \in Pids :
            proc[p].calls > 0 =>
                LET sent == proc[p].request.messages
                    rs == proc[p].responses
                IN  /\ Len(sent) = Offset(p, proc[p].calls - 1)
                    /\ SubSeq(sent, 1, Len(proc[p].messages)) = proc[p].messages
                    /\ \A j \in 1..(proc[p].calls - 1) :
                          LET at == Offset(p, j - 1) + 1
                          IN  /\ sent[at] = rs[j].completion.choices[1].message
                              /\ \A i \in 1..Len(RoundCalls(rs[j])) :
                                    /\ sent[at + i].role = "tool"
                                    /\ sent[at + i].tool_call_id = RoundCalls(rs[j])[i].id)
    /\ [][\A p \in Pids :
            proc'[p].currentMessages # proc[p].currentMessages =>
                /\ proc'[p].pc # proc[p].pc
                /\ \A q \in Pids \ {p} : proc'[q] = proc[q]]_vars

\* both invocations are under way and wait for their second answer; the
\* run of the first threw, the run of the second returned, and each sent
\* its own tool result after its own seed messages
Wit_C35_ConversationPerInvocation ==
    /\ proc[1].pc = "awaitCompletion" /\ proc[1].calls = 2
    /\ proc[2].pc = "awaitCompletion" /\ proc[2].calls = 2
    /\ Len(runLog) = 2
    /\ runLog[1].id = 1 /\ runLog[2].id = 2
    /\ Len(errLog) = 1
    /\ Len(proc[1].request.messages) = 3
    /\ proc[1].request.messages[3].content.json = "object"
    /\ Len(proc[2].request.messages) = 4
    /\ proc[2].request.messages[4].content = JSONStringify("hi")

(***************************************************************************)
(* The messages array of the caller (SpecProcess).                         *)
(***************************************************************************)
\* C36: process does not modify the messages array of its caller: from the
\* call on no step changes it, so when process has returned or failed the
\* array has the length and the elements it was passed with
Thm_C36_CallerMessagesUntouched ==
    /\ [][\A p \in Solo :
            proc[p].pc # "idle" => proc'[p].messages = proc[p].messages]_vars
    /\ [](\A p \in Solo :
            proc[p].pc # "idle" =>
                /\ proc[p].messages \in SeedMessages
                /\ options.openaiApiKey =>
                      /\ Len(proc[p].currentMessages) >= Len(proc[p].messages)
                      /\ SubSeq(proc[p].currentMessages, 1, Len(proc[p].messages))
                            = proc[p].messages)

\* process has returned after two rounds: its conversation has grown, the
\* array of the caller has not
Wit_C36_CallerMessagesUntouched ==
    /\ proc[1].pc = "returned"
    /\ proc[1].iterationCount = 2
    /\ Len(proc[1].messages) = 1
    /\ Len(proc[1].currentMessages) >= 5

(***************************************************************************)
(* Listeners left by start and stop (SpecLifecycle).                       *)
(***************************************************************************)
\* C37: after any sequence of start and stop calls, start twice in a row
\* included, once the last stop has resolved no server the agent created
\* is listening
Claim_C37_NoListenerAfterStop ==
    (/\ Len(http.calls) > 0
     /\ http.calls[Len(http.calls)].op = "stop"
     /\ \A i \in 1..Len(http.calls) : http.calls[i].state # "pending") =>
        \A k \in 1..Len(http.servers) : http.servers[k].state # "listening"

====
